---------------------------- MODULE Spec2Model ----------------------------
(***************************************************************************)
(* Interval-matrix algebra of soap-utils/matrix.py (class IntervalMatrix)  *)
(* and the time-varying graph of soap_parser/tvg.py (class TVG) built on   *)
(* it, with the graphs get_teg and get_reeb_graph build from a network and *)
(* the contact plan of soap_parser/report_parser.py.                       *)
(*                                                                         *)
(* A matrix is a grid of interval sets.  The interval sets are the values  *)
(* of the `portion` library (imported as P): a sorted list of disjoint,    *)
(* non-adjacent atomic intervals (left, lower, upper, right).  The matrix  *)
(* methods are translated one by one; every method that can raise returns  *)
(* an outcome record [exc, val].                                           *)
(***************************************************************************)
EXTENDS Integers, Sequences, FiniteSets, TLC

VARIABLES a, b, c, tn, ret, heap, contacts

vars == <<a, b, c, tn, ret, heap, contacts>>

(***************************************************************************)
(* Bounds of the model.                                                    *)
(***************************************************************************)
\* largest number of rows / columns of an operand matrix
MaxDim == 3
\* largest exponent handed to ** and largest k handed to get_k_cumulant
MaxExp == 4
\* integer shift amounts range over -MaxShift .. MaxShift
MaxShift == 2
\* largest number of nodes of a network
MaxNodes == 4
\* largest number of matrix objects on the heap
MaxMatrices == 2
\* largest number of cell assignments matrix[i, j] = value on the heap
MaxWrites == 1
\* significant bits of a Python float (sys.float_info.mant_dig is 53; the
\* model keeps the rounding rule and scales the width down)
MantDig == 3

(***************************************************************************)
(* Numbers.  A bound of an interval is an integer or one of the infinities *)
(* P.inf / -P.inf, which compare above / below every number.               *)
(***************************************************************************)
inf == 1000000

IsInf(x) == x = inf \/ x = -inf

Pow2(k) == IF k <= 0 THEN 1 ELSE 2 ^ k

\* the unit in the last place of a float of magnitude v
RECURSIVE Ulp(_, _)
Ulp(v, u) == IF v < Pow2(MantDig) * u THEN u ELSE Ulp(v, 2 * u)

\* round-to-nearest, ties-to-even, of the non-negative integer v to a float
RoundMag(v) ==
    LET u == Ulp(v, 1)
        q == v \div u
        r == v % u
    IN  IF 2 * r < u THEN q * u
        ELSE IF 2 * r > u THEN (q + 1) * u
        ELSE IF q % 2 = 0 THEN q * u ELSE (q + 1) * u

RoundFloat(v) == IF v < 0 THEN -RoundMag(-v) ELSE RoundMag(v)

\* A shift amount is a Python int or a Python float: [float, v].
\* x + t and x - t are exact on ints and rounded as soon as t is a float.
PyAdd(x, t) == IF t.float THEN RoundFloat(x + t.v) ELSE x + t.v
PySub(x, t) == IF t.float THEN RoundFloat(x - t.v) ELSE x - t.v

(***************************************************************************)
(* Interval sets (portion).                                                *)
(***************************************************************************)
Atomic(left, lower, upper, right) ==
    [left |-> left, lower |-> lower, upper |-> upper, right |-> right]

\* Bound.__invert__
Flip(bd) == IF bd = "CLOSED" THEN "OPEN" ELSE "CLOSED"

\* Interval.from_atomic: infinite bounds are open; an empty range gives P.empty()
from_atomic(left, lower, upper, right) ==
    LET l == IF IsInf(lower) THEN "OPEN" ELSE left
        r == IF IsInf(upper) THEN "OPEN" ELSE right
    IN  IF lower < upper \/ (lower = upper /\ l = "CLOSED" /\ r = "CLOSED")
        THEN <<Atomic(l, lower, upper, r)>>
        ELSE << >>

empty == << >>
unbounded == from_atomic("OPEN", -inf, inf, "OPEN")
closed(lo, up) == from_atomic("CLOSED", lo, up, "CLOSED")
open(lo, up) == from_atomic("OPEN", lo, up, "OPEN")
closedopen(lo, up) == from_atomic("CLOSED", lo, up, "OPEN")
openclosed(lo, up) == from_atomic("OPEN", lo, up, "CLOSED")

\* Interval.lower / Interval.upper (of the enclosure)
Lower(I) == IF I = << >> THEN inf ELSE I[1].lower
Upper(I) == IF I = << >> THEN -inf ELSE I[Len(I)].upper
Left(I) == IF I = << >> THEN "OPEN" ELSE I[1].left
Right(I) == IF I = << >> THEN "OPEN" ELSE I[Len(I)].right

\* sort key of the constructor: (lower, left is OPEN)
Before(x, y) ==
    x.lower < y.lower \/ (x.lower = y.lower /\ x.left = "CLOSED" /\ y.left = "OPEN")

RECURSIVE Insert(_, _)
Insert(x, s) ==
    IF s = << >> THEN <<x>>
    ELSE IF Before(x, s[1]) THEN <<x>> \o s
    ELSE <<s[1]>> \o Insert(x, Tail(s))

RECURSIVE SortAtomics(_)
SortAtomics(s) == IF s = << >> THEN << >> ELSE Insert(s[1], SortAtomics(Tail(s)))

\* Interval._mergeable
_mergeable(x, y) ==
    LET xfirst == x.lower < y.lower \/ (x.lower = y.lower /\ x.left = "CLOSED")
        first  == IF xfirst THEN x ELSE y
        second == IF xfirst THEN y ELSE x
    IN  IF first.upper = second.lower
        THEN first.right = "CLOSED" \/ second.left = "CLOSED"
        ELSE first.upper > second.lower

\* the union of two mergeable atomic intervals (constructor's merge step)
MergeTwo(x, y) ==
    LET lower == IF x.lower <= y.lower THEN x.lower ELSE y.lower
        left  == IF x.lower = y.lower
                 THEN (IF x.left = "CLOSED" THEN x.left ELSE y.left)
                 ELSE (IF lower = x.lower THEN x.left ELSE y.left)
        upper == IF x.upper >= y.upper THEN x.upper ELSE y.upper
        right == IF x.upper = y.upper
                 THEN (IF x.right = "CLOSED" THEN x.right ELSE y.right)
                 ELSE (IF upper = x.upper THEN x.right ELSE y.right)
    IN  Atomic(left, lower, upper, right)

RECURSIVE MergeSorted(_)
MergeSorted(s) ==
    IF Len(s) <= 1 THEN s
    ELSE IF _mergeable(s[1], s[2])
         THEN MergeSorted(<<MergeTwo(s[1], s[2])>> \o Tail(Tail(s)))
         ELSE <<s[1]>> \o MergeSorted(Tail(s))

\* Interval(*intervals): sort the atomic intervals and merge neighbours
Interval(atomics) == MergeSorted(SortAtomics(atomics))

\* Interval.__or__
Union(I, J) == Interval(I \o J)

\* intersection of two atomic intervals
AtomicAnd(x, y) ==
    LET lower == IF x.lower >= y.lower THEN x.lower ELSE y.lower
        left  == IF x.lower = y.lower
                 THEN (IF x.left = "OPEN" THEN x.left ELSE y.left)
                 ELSE (IF lower = x.lower THEN x.left ELSE y.left)
        upper == IF x.upper <= y.upper THEN x.upper ELSE y.upper
        right == IF x.upper = y.upper
                 THEN (IF x.right = "OPEN" THEN x.right ELSE y.right)
                 ELSE (IF upper = x.upper THEN x.right ELSE y.right)
    IN  from_atomic(left, lower, upper, right)

RECURSIVE AndRow(_, _)
AndRow(x, J) == IF J = << >> THEN << >> ELSE AtomicAnd(x, J[1]) \o AndRow(x, Tail(J))

RECURSIVE AndAll(_, _)
AndAll(I, J) == IF I = << >> THEN << >> ELSE AndRow(I[1], J) \o AndAll(Tail(I), J)

\* Interval.__and__
Intersection(I, J) == Interval(AndAll(I, J))

\* the gaps between consecutive atomic intervals
RECURSIVE Gaps(_)
Gaps(I) ==
    IF Len(I) <= 1 THEN << >>
    ELSE from_atomic(Flip(I[1].right), I[1].upper, I[2].lower, Flip(I[2].left))
         \o Gaps(Tail(I))

\* Interval.__invert__
Complement(I) ==
    Interval(from_atomic("OPEN", -inf, Lower(I), Flip(Left(I)))
             \o from_atomic(Flip(Right(I)), Upper(I), inf, "OPEN")
             \o Gaps(I))

\* an atomic interval x lies within the atomic interval y
AtomicWithin(x, y) ==
    /\ \/ x.lower > y.lower
       \/ (x.lower = y.lower /\ (x.left = y.left \/ y.left = "CLOSED"))
    /\ \/ x.upper < y.upper
       \/ (x.upper = y.upper /\ (x.right = y.right \/ y.right = "CLOSED"))

\* Interval.__contains__ on an interval: item in I
ContainsInterval(I, item) ==
    \A k \in 1..Len(item) : \E l \in 1..Len(I) : AtomicWithin(item[k], I[l])

\* Interval.__contains__ on a value: t in I
ContainsPoint(I, t) ==
    \E l \in 1..Len(I) :
        /\ (I[l].lower < t \/ (I[l].lower = t /\ I[l].left = "CLOSED"))
        /\ (t < I[l].upper \/ (I[l].upper = t /\ I[l].right = "CLOSED"))

\* mutant of ReplaceShift: only the lower bound is moved
ReplaceShift_lower_only(x, t, sign) ==
    LET f(v) == IF IsInf(v) THEN v
                ELSE IF sign < 0 THEN PySub(v, t) ELSE PyAdd(v, t)
    IN  from_atomic(x.left, f(x.lower), x.upper, x.right)

\* x.replace(lower = f, upper = f) with ignore_inf, f being x - t or x + t
ReplaceShift(x, t, sign) ==
    LET f(v) == IF IsInf(v) THEN v
                ELSE IF sign < 0 THEN PySub(v, t) ELSE PyAdd(v, t)
    IN  from_atomic(x.left, f(x.lower), f(x.upper), x.right)

RECURSIVE ApplyShift(_, _, _)
ApplyShift(I, t, sign) ==
    IF I = << >> THEN << >>
    ELSE ReplaceShift(I[1], t, sign) \o ApplyShift(Tail(I), t, sign)

\* I.apply(interval_shift)
Shifted(I, t, sign) == Interval(ApplyShift(I, t, sign))


(***************************************************************************)
(* IntervalMatrix.  A matrix is [dim_row, dim_col, array]; array is a      *)
(* sequence of rows, rows and columns are numbered from 1 (Python: 0).     *)
(* A call returns [exc |-> "none", val |-> result] or raises               *)
(* [exc |-> "ValueError", val |-> NoValue].                                *)
(***************************************************************************)
NoValue == [none |-> TRUE]
Return(v) == [exc |-> "none", val |-> v]
Raise(e) == [exc |-> e, val |-> NoValue]

\* IntervalMatrix.empty_array
empty_array(m, n) == [r \in 1..m |-> [col \in 1..n |-> empty]]

\* IntervalMatrix.__init__ with an explicit array
IntervalMatrix(m, n, array) ==
    IF Len(array) # m THEN Raise("ValueError")
    ELSE IF \E r \in 1..Len(array) : Len(array[r]) # n THEN Raise("ValueError")
    ELSE Return([dim_row |-> m, dim_col |-> n, array |-> array])

\* IntervalMatrix(m, n): array defaults to empty_array(m, n); every cell
\* (i, j) of get_indices(m, n) is then written by matrix[i, j] = cells[i, j]
NewMatrix(m, n, cells) ==
    [dim_row |-> m, dim_col |-> n,
     array |-> [i \in 1..m |-> [j \in 1..n |-> cells[<<i, j>>]]]]

\* IntervalMatrix.__getitem__
Get(M, i, j) == M.array[i][j]

\* IntervalMatrix.get_indices
get_indices(rows, columns) == (1..rows) \X (1..columns)

\* mutant of identity_matrix: the diagonal is closed(0, 2), not unbounded
identity_matrix_bounded(m) ==
    NewMatrix(m, m,
        [ij \in get_indices(m, m) |-> IF ij[1] = ij[2] THEN closed(0, 2) ELSE empty])

\* IntervalMatrix.identity_matrix
identity_matrix(m) ==
    NewMatrix(m, m,
        [ij \in get_indices(m, m) |-> IF ij[1] = ij[2] THEN unbounded ELSE empty])

\* IntervalMatrix.constant_matrix
constant_matrix(m, n, value) ==
    IntervalMatrix(m, m, [j \in 1..m |-> [i \in 1..n |-> value]])

\* IntervalMatrix.get_transpose: zip(*array) has dim_col rows of dim_row cells
get_transpose(self) ==
    IntervalMatrix(self.dim_row, self.dim_col,
        [j \in 1..self.dim_col |-> [i \in 1..self.dim_row |-> Get(self, i, j)]])

\* mutant of __add__: the cell of other is left out of the union
__add__self_only(self, other) ==
    IF self.dim_row # other.dim_row \/ self.dim_col # other.dim_col
    THEN Raise("ValueError")
    ELSE Return(NewMatrix(self.dim_row, self.dim_col,
                [ij \in get_indices(self.dim_row, self.dim_col) |-> Get(self, ij[1], ij[2])]))

\* mutant of __add__: no dimension check, the sum is cut to the common part
__add__truncating(self, other) ==
    LET m == IF self.dim_row < other.dim_row THEN self.dim_row ELSE other.dim_row
        n == IF self.dim_col < other.dim_col THEN self.dim_col ELSE other.dim_col
    IN  Return(NewMatrix(m, n,
            [ij \in get_indices(m, n) |->
                Union(Get(self, ij[1], ij[2]), Get(other, ij[1], ij[2]))]))

\* IntervalMatrix.__add__
__add__(self, other) ==
    IF self.dim_row # other.dim_row \/ self.dim_col # other.dim_col
    THEN Raise("ValueError")
    ELSE Return(NewMatrix(self.dim_row, self.dim_col,
                [ij \in get_indices(self.dim_row, self.dim_col) |->
                    Union(Get(self, ij[1], ij[2]), Get(other, ij[1], ij[2]))]))

\* IntervalMatrix.__radd__: sum() starts from the int 0
__radd__(self, other) ==
    IF other \in Int THEN Return(self) ELSE __add__(self, other)

\* mutant of MulCell: the loop assigns (=) where the code accumulates (|=)
MulCell_assign(self, other, i, j, k) ==
    IF k = 0 THEN empty
    ELSE Intersection(Get(self, i, k), Get(other, k, j))

\* the inner loop of __mul__: matrix[i, j] |= self[i, k] & other[k, j]
RECURSIVE MulCell(_, _, _, _, _)
MulCell(self, other, i, j, k) ==
    IF k = 0 THEN empty
    ELSE Union(MulCell(self, other, i, j, k - 1),
               Intersection(Get(self, i, k), Get(other, k, j)))

\* IntervalMatrix.__mul__
__mul__(self, other) ==
    IF self.dim_col # other.dim_row
    THEN Raise("ValueError")
    ELSE Return(NewMatrix(self.dim_row, other.dim_col,
                [ij \in get_indices(self.dim_row, other.dim_col) |->
                    MulCell(self, other, ij[1], ij[2], self.dim_col)]))

\* mutant of __pow__: the odd branch forgets the factor self
RECURSIVE __pow__odd_as_even(_, _)
__pow__odd_as_even(self, n) ==
    IF self.dim_row # self.dim_col THEN Raise("ValueError")
    ELSE IF n <= 0 THEN Return(identity_matrix(self.dim_row))
    ELSE LET sq == __mul__(self, self)
         IN  IF sq.exc # "none" THEN sq
             ELSE __pow__odd_as_even(sq.val, n \div 2)

\* IntervalMatrix.__pow__
RECURSIVE __pow__(_, _)
__pow__(self, n) ==
    IF self.dim_row # self.dim_col THEN Raise("ValueError")
    ELSE IF n <= 0 THEN Return(identity_matrix(self.dim_row))
    ELSE LET sq == __mul__(self, self)
         IN  IF sq.exc # "none" THEN sq
             ELSE IF n % 2 = 0 THEN __pow__(sq.val, n \div 2)
             ELSE LET p == __pow__(sq.val, (n - 1) \div 2)
                  IN  IF p.exc # "none" THEN p ELSE __mul__(self, p.val)

\* the list built by get_k_cumulant: [identity, self * identity, ...]
RECURSIVE CumulantList(_, _)
CumulantList(self, k) ==
    IF k <= 0 THEN <<identity_matrix(self.dim_row)>>
    ELSE LET ms == CumulantList(self, k - 1)
         IN  Append(ms, __mul__(self, ms[Len(ms)]).val)

\* sum(matrices): ((0 + m1) + m2) + ...
RECURSIVE SumMatrices(_, _)
SumMatrices(ms, k) ==
    IF k = 1 THEN __radd__(ms[1], 0)
    ELSE LET acc == SumMatrices(ms, k - 1)
         IN  IF acc.exc # "none" THEN acc ELSE __add__(acc.val, ms[k])

\* mutant of get_k_cumulant: the loop stops one power early, range(1, k)
get_k_cumulant_short(self, k) ==
    IF self.dim_row # self.dim_col THEN Raise("ValueError")
    ELSE LET ms == CumulantList(self, k - 1) IN SumMatrices(ms, Len(ms))

\* IntervalMatrix.get_k_cumulant
get_k_cumulant(self, k) ==
    IF self.dim_row # self.dim_col THEN Raise("ValueError")
    ELSE LET ms == CumulantList(self, k) IN SumMatrices(ms, Len(ms))

\* IntervalMatrix.__lshift__
__lshift__(self, t) ==
    NewMatrix(self.dim_row, self.dim_col,
        [ij \in get_indices(self.dim_row, self.dim_col) |->
            Shifted(Get(self, ij[1], ij[2]), t, -1)])

\* IntervalMatrix.__rshift__
__rshift__(self, t) ==
    NewMatrix(self.dim_row, self.dim_col,
        [ij \in get_indices(self.dim_row, self.dim_col) |->
            Shifted(Get(self, ij[1], ij[2]), t, 1)])

\* IntervalMatrix.__invert__
__invert__(self) ==
    NewMatrix(self.dim_row, self.dim_col,
        [ij \in get_indices(self.dim_row, self.dim_col) |->
            Complement(Get(self, ij[1], ij[2]))])

\* IntervalMatrix.is_symmetric
is_symmetric(self) ==
    IF self.dim_row # self.dim_col THEN FALSE
    ELSE \A ij \in { x \in get_indices(self.dim_row, self.dim_col) : x[1] > x[2] } :
            Get(self, ij[1], ij[2]) = Get(self, ij[2], ij[1])

\* mutant of __contains__: the test is made the wrong way round
__contains__reversed(self, other) ==
    IF self.dim_col # other.dim_col \/ self.dim_row # other.dim_row THEN FALSE
    ELSE \A ij \in get_indices(self.dim_row, self.dim_col) :
            ContainsInterval(Get(other, ij[1], ij[2]), Get(self, ij[1], ij[2]))

\* IntervalMatrix.__contains__: other in self
__contains__(self, other) ==
    IF self.dim_col # other.dim_col \/ self.dim_row # other.dim_row THEN FALSE
    ELSE \A ij \in get_indices(self.dim_row, self.dim_col) :
            ContainsInterval(Get(self, ij[1], ij[2]), Get(other, ij[1], ij[2]))

\* IntervalMatrix.__eq__
__eq__(self, other) ==
    IF self.dim_col # other.dim_col \/ self.dim_row # other.dim_row THEN FALSE
    ELSE \A ij \in get_indices(self.dim_row, self.dim_col) :
            Get(self, ij[1], ij[2]) = Get(other, ij[1], ij[2])

(***************************************************************************)
(* TVG (TemporalNetwork).  self.graph is a networkx Graph: its nodes in    *)
(* the order they were added, each with its label, and its edges in the    *)
(* order graph.edges reports them, each as [u, v, contacts] with u the     *)
(* end that was added to the graph first.  Node ids are numbered from 1    *)
(* like the rows of a matrix (Python: 0); node k is nodes[k].              *)
(***************************************************************************)
\* nx.Graph(): no node, no edge
\* no list and no matrix object allocated
NoHeap == [lists |-> << >>, matrices |-> << >>, writes |-> 0]

nx_Graph == [nodes |-> << >>, edges |-> << >>]

\* matrix.labels is not None
HasLabels(matrix) == "labels" \in DOMAIN matrix

\* IntervalMatrix.set_labels: the matrix with its labels set
set_labels(matrix, labels) ==
    [dim_row |-> matrix.dim_row, dim_col |-> matrix.dim_col,
     array |-> matrix.array, labels |-> labels]

\* IntervalMatrix.__setitem__: matrix[i, j] = value
__setitem__(matrix, i, j, value) == [matrix EXCEPT !.array[i][j] = value]

\* matrix_enumerate: the cells row by row, each with its index
matrix_enumerate(matrix) ==
    [q \in 1..(matrix.dim_row * matrix.dim_col) |->
        LET index == << ((q - 1) \div matrix.dim_col) + 1,
                        ((q - 1) % matrix.dim_col) + 1 >>
        IN  << index, Get(matrix, index[1], index[2]) >>]

\* upper_matrix_enumerate: the cells on and above the diagonal, row by row
upper_matrix_enumerate(matrix) ==
    SelectSeq(matrix_enumerate(matrix), LAMBDA x : x[1][1] <= x[1][2])

\* str(k) for the Python index k of node k + 1
str(k) == ToString(k)

\* mutant of TVG: a cell above the diagonal gives an edge also when empty
TVG_keep_empty(matrix) ==
    LET labels == IF HasLabels(matrix) THEN matrix.labels
                  ELSE [k \in 1..matrix.dim_row |-> str(k - 1)]
        kept == SelectSeq(upper_matrix_enumerate(matrix),
                    LAMBDA x : x[1][1] # x[1][2])
    IN  [nodes |-> labels,
         edges |-> [k \in 1..Len(kept) |->
                      [u |-> kept[k][1][1], v |-> kept[k][1][2],
                       contacts |-> kept[k][2]]]]

\* TVG.__init__: the graph built from a matrix
TVG(matrix) ==
    LET labels == IF HasLabels(matrix) THEN matrix.labels
                  ELSE [k \in 1..matrix.dim_row |-> str(k - 1)]
        kept == SelectSeq(upper_matrix_enumerate(matrix),
                    LAMBDA x : x[2] # empty /\ x[1][1] # x[1][2])
    IN  [nodes |-> labels,
         edges |-> [k \in 1..Len(kept) |->
                      [u |-> kept[k][1][1], v |-> kept[k][1][2],
                       contacts |-> kept[k][2]]]]

\* the loop of get_interval_matrix over graph.edges.data("contacts")
RECURSIVE SetEdges(_, _)
SetEdges(matrix, edges) ==
    IF edges = << >> THEN matrix
    ELSE SetEdges(__setitem__(matrix, edges[1].u, edges[1].v, edges[1].contacts),
                  Tail(edges))

\* TVG.get_interval_matrix
get_interval_matrix(self) ==
    LET k == Len(self.nodes)
    IN  IF \E e \in 1..Len(self.edges) : ~(self.edges[e].u < self.edges[e].v)
        THEN Raise("AssertionError")
        ELSE Return(set_labels(SetEdges(identity_matrix(k), self.edges), self.nodes))

\* mutant of get_graph_at: the view keeps every edge
get_graph_at_unfiltered(self, t) ==
    [nodes |-> self.nodes,
     edges |-> SelectSeq(self.edges, LAMBDA e : TRUE)]

\* TVG.get_graph_at: nx.subgraph_view with the edges alive at t
get_graph_at(self, t) ==
    [nodes |-> self.nodes,
     edges |-> SelectSeq(self.edges, LAMBDA e : ContainsPoint(e.contacts, t))]

\* TVG.get_edges_at
get_edges_at(self, t) ==
    LET alive == SelectSeq(self.edges, LAMBDA e : ContainsPoint(e.contacts, t))
    IN  [k \in 1..Len(alive) |-> << alive[k].u, alive[k].v >>]

\* the neighbours of the nodes of S in the graph G
Neighbours(G, S) ==
    { G.edges[e].v : e \in { x \in 1..Len(G.edges) : G.edges[x].u \in S } }
    \cup { G.edges[e].u : e \in { x \in 1..Len(G.edges) : G.edges[x].v \in S } }

\* breadth-first search from the nodes of frontier, d steps away from the
\* source: the number of steps to target, or -1 (nx.NetworkXNoPath)
RECURSIVE BreadthFirst(_, _, _, _, _)
BreadthFirst(G, frontier, seen, target, d) ==
    IF target \in frontier THEN d
    ELSE LET next == Neighbours(G, frontier) \ seen
         IN  IF next = {} THEN -1
             ELSE BreadthFirst(G, next, seen \cup next, target, d + 1)

\* nx.shortest_path_length(G, source, target)
shortest_path_length(G, source, target) ==
    IF source \notin 1..Len(G.nodes) \/ target \notin 1..Len(G.nodes)
    THEN Raise("NodeNotFound")
    ELSE LET d == BreadthFirst(G, {source}, {source}, target, 0)
         IN  IF d < 0 THEN Raise("NetworkXNoPath") ELSE Return(d)

\* mutant of connected_at: NetworkXNoPath is not caught
connected_at_uncaught(self, u, v, t) ==
    shortest_path_length(get_graph_at(self, t), u, v)

\* TVG.connected_at
connected_at(self, u, v, t) ==
    LET length == shortest_path_length(get_graph_at(self, t), u, v)
    IN  IF length.exc = "NetworkXNoPath" THEN Return(0) ELSE length

\* sorted(list(S)) of a set of numbers
RECURSIVE sorted(_)
sorted(S) ==
    IF S = {} THEN << >>
    ELSE LET least == CHOOSE x \in S : \A y \in S : x <= y
         IN  << least >> \o sorted(S \ {least})

\* mutant of get_critical_times: the upper bounds are left out
get_critical_times_lower_only(self) ==
    LET time == UNION { { self.edges[e].contacts[i].lower :
                            i \in 1..Len(self.edges[e].contacts) } :
                        e \in 1..Len(self.edges) }
    IN  sorted(time)

\* mutant of get_critical_times: c.lower and c.upper of the contacts as a
\* whole, not of every sub-range
get_critical_times_enclosure(self) ==
    LET time == UNION { { Lower(self.edges[e].contacts), Upper(self.edges[e].contacts) } :
                        e \in 1..Len(self.edges) }
    IN  sorted(time)

\* mutant of get_critical_times: the lower bounds are left out
get_critical_times_upper_only(self) ==
    LET time == UNION { { self.edges[e].contacts[i].upper :
                            i \in 1..Len(self.edges[e].contacts) } :
                        e \in 1..Len(self.edges) }
    IN  sorted(time)

\* TVG.get_critical_times
get_critical_times(self) ==
    LET time == UNION { UNION { { self.edges[e].contacts[i].lower,
                                  self.edges[e].contacts[i].upper } :
                                i \in 1..Len(self.edges[e].contacts) } :
                        e \in 1..Len(self.edges) }
    IN  sorted(time)

\* IntervalMatrix.get_submatrix: the cells of the given rows and columns, in
\* the order given; the labels of the rows go with them
get_submatrix(matrix, rows, columns) ==
    LET sub == [dim_row |-> Len(rows), dim_col |-> Len(columns),
                array |-> [r \in 1..Len(rows) |-> [col \in 1..Len(columns) |->
                              Get(matrix, rows[r], columns[col])]]]
    IN  IF HasLabels(matrix)
        THEN set_labels(sub, [r \in 1..Len(rows) |-> matrix.labels[rows[r]]])
        ELSE sub

\* TVG.get_sub_tvg
get_sub_tvg(self, nodes) ==
    LET matrix == get_interval_matrix(self)
    IN  IF matrix.exc # "none" THEN matrix
        ELSE Return(TVG(get_submatrix(matrix.val, nodes, nodes)))

\* mutant of get_window: the cells are united with the interval
get_window_union(self, interval) ==
    NewMatrix(self.dim_row, self.dim_col,
        [ij \in get_indices(self.dim_row, self.dim_col) |->
            Union(Get(self, ij[1], ij[2]), interval)])

\* IntervalMatrix.get_window
get_window(self, interval) ==
    NewMatrix(self.dim_row, self.dim_col,
        [ij \in get_indices(self.dim_row, self.dim_col) |->
            Intersection(Get(self, ij[1], ij[2]), interval)])

\* TVG.get_tvg_window
get_tvg_window(self, interval) ==
    LET matrix == get_interval_matrix(self)
    IN  IF matrix.exc # "none" THEN matrix
        ELSE Return(TVG(get_window(matrix.val, interval)))

(***************************************************************************)
(* The graphs built from a network.  An optional argument is None or       *)
(* Some(value).  The time-expanded graph is a networkx DiGraph: its nodes   *)
(* (n, t) and its edges ((i, p), (j, t)).                                  *)
(***************************************************************************)
None == [some |-> FALSE]

Some(x) == [some |-> TRUE, v |-> x]

\* nx.floyd_warshall_numpy(G): the distance of every pair of nodes, np.inf
\* where there is no path
floyd_warshall_numpy(G) ==
    [i \in 1..Len(G.nodes) |-> [j \in 1..Len(G.nodes) |->
        LET d == BreadthFirst(G, {i}, {i}, j, 0)
        IN  IF d < 0 THEN inf ELSE d]]

\* mutant of TegEdges: the edges leave the first layer, whatever the index
TegEdges_from_first(self, sample_times, index, limit) ==
    LET previous_graph == get_graph_at(self, sample_times[1])
        distance_matrix == floyd_warshall_numpy(previous_graph)
        nodes == 1..Len(previous_graph.nodes)
    IN  { << <<ij[1], sample_times[1]>>, <<ij[2], sample_times[index]>> >> :
            ij \in { x \in nodes \X nodes : distance_matrix[x[1]][x[2]] <= limit } }

\* the edges get_teg adds for the sample sample_times[index], index > 1:
\* the distances are those of previous_graph
TegEdges(self, sample_times, index, limit) ==
    LET previous_graph == get_graph_at(self, sample_times[index - 1])
        distance_matrix == floyd_warshall_numpy(previous_graph)
        nodes == 1..Len(previous_graph.nodes)
    IN  { << <<ij[1], sample_times[index - 1]>>, <<ij[2], sample_times[index]>> >> :
            ij \in { x \in nodes \X nodes : distance_matrix[x[1]][x[2]] <= limit } }

\* TVG.get_teg
get_teg(self, sample_times, limit, start, end) ==
    LET critical_times == get_critical_times(self)
    IN  IF (~start.some \/ ~end.some) /\ critical_times = << >>
        THEN Raise("IndexError")
        ELSE LET first == IF start.some THEN start.v ELSE critical_times[1]
                 last == IF end.some THEN end.v ELSE critical_times[Len(critical_times)]
                 given == IF sample_times.some THEN sample_times.v ELSE critical_times
                 kept == SelectSeq(given, LAMBDA t : first <= t /\ t <= last)
             IN  Return(
                   [nodes |-> { <<n, kept[k]>> :
                                  n \in 1..Len(self.nodes), k \in 1..Len(kept) },
                    edges |-> UNION { TegEdges(self, kept, k, limit) :
                                        k \in 2..Len(kept) }])

(***************************************************************************)
(* The Reeb graph is a networkx Graph: its nodes (representative, column), *)
(* each with its attributes, and its edges, pairs of nodes without order.  *)
(* A cluster is modelled by the set of its nodes: the code uses only       *)
(* set(c) and sorted(list(c))[0].  A clustering is the list of its         *)
(* clusters, a clusters_list the list of the clusterings of the samples.   *)
(***************************************************************************)
\* the nodes joined to a node of S by a path of G
RECURSIVE NodeConnectedComponent(_, _)
NodeConnectedComponent(G, S) ==
    LET next == Neighbours(G, S) \ S
    IN  IF next = {} THEN S ELSE NodeConnectedComponent(G, S \cup next)

\* list(nx.connected_components(G)): a component is yielded when its first
\* node is met
connected_components(G) ==
    LET first == SelectSeq([k \in 1..Len(G.nodes) |-> k],
                     LAMBDA n : \A m \in NodeConnectedComponent(G, {n}) : n <= m)
    IN  [k \in 1..Len(first) |-> NodeConnectedComponent(G, {first[k]})]

\* [t + (critical_times[i + 1] - t) / 2 for i, t in
\* enumerate(critical_times[:-1])]; the bounds being even numbers the
\* quotient is exact
Midpoints(critical_times) ==
    [i \in 1..(Len(critical_times) - 1) |->
        critical_times[i] + (critical_times[i + 1] - critical_times[i]) \div 2]

\* mutant of ZipFilter: the clusterings are not filtered
ZipFilter_unfiltered(sample_times, clusters_list, start, end) ==
    clusters_list

\* [c for t, c in zip(sample_times, clusters_list) if start <= t <= end]
ZipFilter(sample_times, clusters_list, start, end) ==
    LET kept == SelectSeq([k \in 1..Len(sample_times) |-> k],
                    LAMBDA k : start <= sample_times[k] /\ sample_times[k] <= end)
    IN  [i \in 1..Len(kept) |-> clusters_list[kept[i]]]

\* the clustering of the sample of column i (columns count from 0)
ReebComponents(self, sample_times, clusters_list, i) ==
    IF clusters_list.some THEN clusters_list.v[i + 1]
    ELSE connected_components(get_graph_at(self, sample_times[i + 1]))

\* sorted(list(c))[0]
Representative(cluster) == CHOOSE n \in cluster : \A m \in cluster : n <= m

\* the first loop of get_reeb_graph: rg.add_node((representative, i), ...)
\* for every cluster; adding a node that is there replaces its attributes
ReebNodes(self, sample_times, clusters_list) ==
    LET comp(i) == ReebComponents(self, sample_times, clusters_list, i)
        ids == UNION { { << Representative(comp(i)[k]), i >> :
                           k \in 1..Len(comp(i)) } :
                       i \in 0..(Len(sample_times) - 1) }
    IN  [id \in ids |->
           LET components == comp(id[2])
               last == CHOOSE k \in 1..Len(components) :
                          /\ Representative(components[k]) = id[1]
                          /\ \A l \in 1..Len(components) :
                                Representative(components[l]) = id[1] => l <= k
           IN  [repr |-> id[1], column |-> id[2], ec |-> components[last]]]

\* the second loop of get_reeb_graph: for every column i but the last, the
\* pairs of the nodes of columns i and i + 1 whose classes meet
ReebEdges(nodes, columns) ==
    UNION { LET near == { n \in DOMAIN nodes :
                            nodes[n].column = i \/ nodes[n].column = i + 1 }
            IN  { {p[1], p[2]} :
                    p \in { q \in near \X near :
                              q[1] # q[2] /\ nodes[q[1]].ec \cap nodes[q[2]].ec # {} } } :
            i \in 0..(columns - 2) }

\* TVG.get_reeb_graph
get_reeb_graph(self, sample_times, clusters_list, start, end) ==
    LET critical_times == get_critical_times(self)
    IN  IF (~start.some \/ ~end.some) /\ critical_times = << >>
        THEN Raise("IndexError")
        ELSE IF ~sample_times.some /\ clusters_list.some
        THEN Raise("AssertionError")
        ELSE IF /\ ~sample_times.some
                /\ Len(critical_times) >= 2
                /\ \E k \in 1..Len(critical_times) : IsInf(critical_times[k])
        THEN Raise("TypeError")
        ELSE LET first == IF start.some THEN start.v ELSE critical_times[1]
                 last == IF end.some THEN end.v ELSE critical_times[Len(critical_times)]
                 given == IF sample_times.some THEN sample_times.v
                          ELSE Midpoints(critical_times)
             IN  IF clusters_list.some /\ Len(given) # Len(clusters_list.v)
                 THEN Raise("AssertionError")
                 ELSE LET clusters == IF clusters_list.some
                                      THEN Some(ZipFilter(given, clusters_list.v, first, last))
                                      ELSE None
                          kept == SelectSeq(given, LAMBDA t : first <= t /\ t <= last)
                      IN  IF /\ clusters.some
                             /\ \E i \in 1..Len(clusters.v) :
                                   \E k \in 1..Len(clusters.v[i]) : clusters.v[i][k] = {}
                          THEN Raise("IndexError")
                          ELSE LET nodes == ReebNodes(self, kept, clusters)
                               IN  Return([nodes |-> nodes,
                                           edges |-> ReebEdges(nodes, Len(kept))])

(***************************************************************************)
(* The contact plan of report_parser.py.  The dict nodes (name -> id, ids  *)
(* given in order of first appearance) is the list of the names, the id of *)
(* a name being its place in the list (from 1, where the code counts from  *)
(* 0); the dict edges is a function from the pairs (u, v) to the lists of  *)
(* rise and set times.  The parser is modelled from the list of contacts   *)
(* that contact_analysis_parser_v15 returns: one contact for each link,    *)
(* with the connections [rise, set] of the link.                           *)
(***************************************************************************)
\* nodes[name]
NodeId(nodes, name) == CHOOSE k \in 1..Len(nodes) : nodes[k] = name

\* if name not in nodes: nodes[name] = node_counter; node_counter += 1
AddNode(nodes, name) ==
    IF \E k \in 1..Len(nodes) : nodes[k] = name THEN nodes ELSE Append(nodes, name)

\* edges.setdefault(edge_id, []).append(time)
SetDefaultAppend(edges, edge_id, time) ==
    IF edge_id \in DOMAIN edges
    THEN [edges EXCEPT ![edge_id] = Append(@, time)]
    ELSE edges @@ (edge_id :> << time >>)

\* the loop over the connections of one contact, from the k-th on.  prev_set
\* is -1 at every turn: the loop ends with previous_set_time = set_time,
\* which does not assign prev_set
RECURSIVE ConnectionsLoop(_, _, _, _, _)
ConnectionsLoop(edges, edge_id, connections, k, delta) ==
    IF k > Len(connections) THEN Return(edges)
    ELSE LET prev_set == -1
             rise_time == connections[k].rise
             set_time == connections[k].set
         IN  IF prev_set = rise_time \/ rise_time - prev_set < delta
             THEN IF edge_id \notin DOMAIN edges THEN Raise("KeyError")
                  ELSE IF edges[edge_id] = << >> THEN Raise("IndexError")
                  ELSE ConnectionsLoop(
                         SetDefaultAppend(
                           [edges EXCEPT ![edge_id] = SubSeq(@, 1, Len(@) - 1)],
                           edge_id, set_time),
                         edge_id, connections, k + 1, delta)
             ELSE ConnectionsLoop(
                    SetDefaultAppend(SetDefaultAppend(edges, edge_id, rise_time),
                                     edge_id, set_time),
                    edge_id, connections, k + 1, delta)

\* the loop over the contacts, from the k-th on
RECURSIVE ContactsLoop(_, _, _, _, _)
ContactsLoop(nodes, edges, contact_list, k, delta) ==
    IF k > Len(contact_list) THEN Return([nodes |-> nodes, edges |-> edges])
    ELSE LET contact == contact_list[k]
             named == AddNode(AddNode(nodes, contact.source), contact.target)
             source_id == NodeId(named, contact.source)
             target_id == NodeId(named, contact.target)
             edge_id == IF source_id <= target_id THEN << source_id, target_id >>
                        ELSE << target_id, source_id >>
             done == ConnectionsLoop(edges, edge_id, contact.connections, 1, delta)
         IN  IF done.exc # "none" THEN done
             ELSE ContactsLoop(named, done.val, contact_list, k + 1, delta)

\* contact_analysis_report_parser, from the contacts of the report on
contact_analysis_report_parser(contact_list, delta) ==
    ContactsLoop(<< >>, << >>, contact_list, 1, delta)

\* matrix[i, j] = value for any i, j: the list index raises out of range
SetItem(matrix, i, j, value) ==
    IF i \in 1..matrix.dim_row /\ j \in 1..matrix.dim_col
    THEN Return(__setitem__(matrix, i, j, value))
    ELSE Raise("IndexError")

\* for i in range(n): matrix[(n, n)] = P.open(-P.inf, P.inf), from the i-th
\* turn on; the index (n, n) of the code is the index (n + 1, n + 1) here
RECURSIVE DiagonalLoop(_, _, _)
DiagonalLoop(matrix, n, i) ==
    IF i > n THEN Return(matrix)
    ELSE LET set == SetItem(matrix, n + 1, n + 1, unbounded)
         IN  IF set.exc # "none" THEN set ELSE DiagonalLoop(set.val, n, i + 1)

\* for i in range(0, n, 2): the closed interval of connections[i] and
\* connections[i + 1] is united into the cells (source, target) and
\* (target, source); i is the index of the code and n the number of nodes
RECURSIVE RiseSetLoop(_, _, _, _, _)
RiseSetLoop(matrix, edge_id, connections, n, i) ==
    IF i >= n THEN Return(matrix)
    ELSE IF i + 2 > Len(connections) THEN Raise("IndexError")
    ELSE LET contact == closed(connections[i + 1], connections[i + 2])
             source == edge_id[1]
             target == edge_id[2]
             one == __setitem__(matrix, source, target,
                                Union(Get(matrix, source, target), contact))
             two == __setitem__(one, target, source,
                                Union(Get(one, target, source), contact))
         IN  RiseSetLoop(two, edge_id, connections, n, i + 2)

\* for (source, target), connections in edges.items(), over the keys left
RECURSIVE EdgesLoop(_, _, _, _)
EdgesLoop(matrix, edges, keys, n) ==
    IF keys = {} THEN Return(matrix)
    ELSE LET edge_id == CHOOSE x \in keys : \A y \in keys :
                            x[1] < y[1] \/ (x[1] = y[1] /\ x[2] <= y[2])
             filled == RiseSetLoop(matrix, edge_id, edges[edge_id], n, 0)
         IN  IF filled.exc # "none" THEN filled
             ELSE EdgesLoop(filled.val, edges, keys \ {edge_id}, n)

\* contact_plan_to_matrix
contact_plan_to_matrix(nodes, edges) ==
    LET n == Len(nodes)
        matrix == set_labels(NewMatrix(n, n, [ij \in get_indices(n, n) |-> empty]),
                             nodes)
        diagonal == DiagonalLoop(matrix, n, 1)
    IN  IF diagonal.exc # "none" THEN diagonal
        ELSE EdgesLoop(diagonal.val, edges, DOMAIN edges, n)

(***************************************************************************)
(* Objects.  A Python list and a matrix are objects: the heap holds the    *)
(* lists of lists (grids) by address and the matrix objects, whose field   *)
(* array is the address of a grid.  writes counts the cell assignments.    *)
(***************************************************************************)
\* the value of the matrix object m of the heap h
Deref(h, m) ==
    [dim_row |-> h.matrices[m].dim_row, dim_col |-> h.matrices[m].dim_col,
     array |-> h.lists[h.matrices[m].array]]

\* IntervalMatrix.__init__ with the list at an address as array:
\* self.array = array keeps the list itself
Construct(h, address) ==
    [h EXCEPT !.matrices =
        Append(@, [dim_row |-> Len(h.lists[address]),
                   dim_col |-> Len(h.lists[address][1]),
                   array |-> address])]

\* IntervalMatrix(m, n) in an operator: self.array = self.empty_array(m, n)
\* is a new list, which the operator then fills with the cells of value
Allocate(h, value) ==
    [h EXCEPT !.lists = Append(@, value.array),
              !.matrices = Append(@, [dim_row |-> value.dim_row,
                                      dim_col |-> value.dim_col,
                                      array |-> Len(h.lists) + 1])]

\* IntervalMatrix.__setitem__ on the object m: self.array[i][j] = value
AssignItem(h, m, i, j, value) ==
    [h EXCEPT !.lists[h.matrices[m].array][i][j] = value, !.writes = @ + 1]

(***************************************************************************)
(* Inputs.  The cells of an operand are taken from Palette, row by row,    *)
(* starting at position seed: every interval shape (empty, unbounded,      *)
(* closed, open, half-bounded, a single point, a union of two pieces)      *)
(* occurs in every cell position.                                          *)
(***************************************************************************)
Palette ==
    << empty,
       closed(0, 2),
       unbounded,
       closed(1, 3),
       open(0, 1),
       Union(closedopen(0, 1), openclosed(1, 3)),
       closed(2, 2),
       openclosed(-inf, 1) >>

Seeds == 0..(Len(Palette) - 1)

Dims == 1..MaxDim

\* the explicit grid handed to IntervalMatrix(m, n, array): cell number q
\* (row by row) is Palette entry seed + stride * q
Grid(m, n, seed, stride) ==
    [i \in 1..m |-> [j \in 1..n |->
        Palette[1 + ((seed + stride * ((i - 1) * n + (j - 1))) % Len(Palette))]]]

\* operands of the one-operand calls: stride 0 gives the constant grids
Operands1 ==
    { IntervalMatrix(m, n, Grid(m, n, seed, stride)).val :
        m \in Dims, n \in Dims, seed \in Seeds, stride \in {0, 1, 3} }

\* operands of the calls with two and three operands
Operands ==
    { IntervalMatrix(m, n, Grid(m, n, seed, 1)).val : m \in Dims, n \in Dims, seed \in Seeds }

\* third operands: the grids of some shape that start at every third entry
Operands3(m, n) ==
    { IntervalMatrix(m, n, Grid(m, n, seed, 1)).val : seed \in { x \in Seeds : x % 3 = 0 } }

\* exponents of ** and k of get_k_cumulant
Exponents == (-1)..MaxExp

\* shift amounts: Python ints, and one Python float too large for the
\* difference x - t to be exact
Shifts ==
    { [float |-> FALSE, v |-> t] : t \in (-MaxShift)..MaxShift }
    \cup { [float |-> TRUE, v |-> Pow2(MantDig + 1)] }

(***************************************************************************)
(* The state: the operand matrices a, b, c held by the caller, and ret,    *)
(* the call that has just returned with its outcome.  The code is          *)
(* synchronous: a call returns (or raises) before the caller makes the     *)
(* next one, so a call starts only when no outcome is pending, and Drop    *)
(* is the caller letting go of the outcome.                                *)
(***************************************************************************)
Call(op, arg, outcome) ==
    [op |-> op, arg |-> arg, exc |-> outcome.exc, val |-> outcome.val]

NoCall == [op |-> "none", arg |-> 0, exc |-> "none", val |-> NoValue]

Init ==
    /\ a \in Operands
    /\ b \in Operands
    /\ c = b
    /\ tn = nx_Graph
    /\ heap = NoHeap
    /\ contacts = << >>
    /\ ret = NoCall

\* one operand
Init1 ==
    /\ a \in Operands1
    /\ b = a
    /\ c = a
    /\ tn = nx_Graph
    /\ heap = NoHeap
    /\ contacts = << >>
    /\ ret = NoCall

\* three operands; c has the shape of b
Init3 ==
    /\ a \in Operands
    /\ b \in Operands
    /\ c \in Operands3(b.dim_row, b.dim_col)
    /\ tn = nx_Graph
    /\ heap = NoHeap
    /\ contacts = << >>
    /\ ret = NoCall

\* a + b
Add ==
    /\ ret.op = "none"
    /\ ret' = Call("add", 0, __add__(a, b))
    /\ UNCHANGED <<a, b, c, tn, heap, contacts>>

\* b + c
AddBC ==
    /\ ret.op = "none"
    /\ ret' = Call("addbc", 0, __add__(b, c))
    /\ UNCHANGED <<a, b, c, tn, heap, contacts>>

\* a * b
Mul ==
    /\ ret.op = "none"
    /\ ret' = Call("mul", 0, __mul__(a, b))
    /\ UNCHANGED <<a, b, c, tn, heap, contacts>>

\* a ** n
Pow ==
    \E n \in Exponents :
        /\ ret.op = "none"
    /\ ret' = Call("pow", n, __pow__(a, n))
        /\ UNCHANGED <<a, b, c, tn, heap, contacts>>

\* a.get_k_cumulant(k)
Cumulant ==
    \E k \in 0..MaxExp :
        /\ ret.op = "none"
    /\ ret' = Call("cumulant", k, get_k_cumulant(a, k))
        /\ UNCHANGED <<a, b, c, tn, heap, contacts>>

\* a.get_transpose()
Transpose ==
    /\ ret.op = "none"
    /\ ret' = Call("transpose", 0, get_transpose(a))
    /\ UNCHANGED <<a, b, c, tn, heap, contacts>>

\* a << t
LShift ==
    \E t \in Shifts :
        /\ ret.op = "none"
    /\ ret' = Call("lshift", t, Return(__lshift__(a, t)))
        /\ UNCHANGED <<a, b, c, tn, heap, contacts>>

\* a >> t
RShift ==
    \E t \in Shifts :
        /\ ret.op = "none"
    /\ ret' = Call("rshift", t, Return(__rshift__(a, t)))
        /\ UNCHANGED <<a, b, c, tn, heap, contacts>>

\* ~a
Invert ==
    /\ ret.op = "none"
    /\ ret' = Call("invert", 0, Return(__invert__(a)))
    /\ UNCHANGED <<a, b, c, tn, heap, contacts>>

\* b in a
Contains ==
    /\ ret.op = "none"
    /\ ret' = Call("contains", 0, Return(__contains__(a, b)))
    /\ UNCHANGED <<a, b, c, tn, heap, contacts>>

\* a == b
Eq ==
    /\ ret.op = "none"
    /\ ret' = Call("eq", 0, Return(__eq__(a, b)))
    /\ UNCHANGED <<a, b, c, tn, heap, contacts>>

\* IntervalMatrix.identity_matrix(m)
Identity ==
    \E m \in Dims :
        /\ ret.op = "none"
    /\ ret' = Call("identity", m, Return(identity_matrix(m)))
        /\ UNCHANGED <<a, b, c, tn, heap, contacts>>

\* IntervalMatrix.constant_matrix(m, n, P.open(-P.inf, P.inf))
Constant ==
    \E m \in Dims, n \in Dims :
        /\ ret.op = "none"
    /\ ret' = Call("constant", <<m, n>>, constant_matrix(m, n, unbounded))
        /\ UNCHANGED <<a, b, c, tn, heap, contacts>>

\* the caller is done with the outcome of the last call
Drop ==
    /\ ret.op # "none"
    /\ ret' = NoCall
    /\ UNCHANGED <<a, b, c, tn, heap, contacts>>

\* the calls on two operands, and the calls that can raise
Next ==
    \/ Add
    \/ Mul
    \/ Contains
    \/ Eq
    \/ Pow
    \/ Cumulant
    \/ Drop

Spec == Init /\ [][Next]_vars

\* the calls on one operand and the factories
Next1 ==
    \/ Pow
    \/ Cumulant
    \/ Transpose
    \/ LShift
    \/ RShift
    \/ Invert
    \/ Identity
    \/ Constant
    \/ Drop

Spec1 == Init1 /\ [][Next1]_vars

\* the calls the laws on three operands are about
Next3 ==
    \/ Add
    \/ AddBC
    \/ Mul
    \/ Identity
    \/ Drop

Spec3 == Init3 /\ [][Next3]_vars

(***************************************************************************)
(* Networks.  tn is the network built from the matrix a; the caller keeps  *)
(* both.  The cells of a come from Contacts, whose bounds are even, so     *)
(* that the odd times lie strictly between two bounds; the matrix of the   *)
(* test of tvg.py is one more source.                                      *)
(***************************************************************************)
Contacts ==
    << empty,
       closed(0, 4),
       unbounded,
       closed(2, 6),
       open(0, 2),
       Union(closedopen(0, 2), openclosed(2, 6)),
       closed(4, 4),
       openclosed(-inf, 2),
       open(4, 6) >>

ContactSeeds == 0..(Len(Contacts) - 1)

Contact(q) == Contacts[1 + (q % Len(Contacts))]

LabelNames == << "A", "B", "C", "D", "E", "F" >>

Labels(n) == [k \in 1..n |-> LabelNames[1 + ((k - 1) % Len(LabelNames))]]

\* the position of the pair {i, j}, i < j, among the pairs of 1..n
PairIndex(n, i, j) == (i - 1) * n + (j - 1)

\* any n x n grid, the lower triangle and the diagonal unrelated to the rest
AnyGrid(n, seed) ==
    [i \in 1..n |-> [j \in 1..n |-> Contact(seed + (i - 1) * n + (j - 1))]]

\* unbounded diagonal, cell (j, i) equal to cell (i, j)
SymmetricGrid(n, seed) ==
    [i \in 1..n |-> [j \in 1..n |->
        IF i = j THEN unbounded
        ELSE IF i < j THEN Contact(seed + PairIndex(n, i, j))
        ELSE Contact(seed + PairIndex(n, j, i))]]

\* unbounded diagonal, empty below it (the shape of array_a)
UpperGrid(n, seed) ==
    [i \in 1..n |-> [j \in 1..n |->
        IF i = j THEN unbounded
        ELSE IF i < j THEN Contact(seed + PairIndex(n, i, j))
        ELSE empty]]

\* __main__ of tvg.py: array_a
array_a ==
    << << unbounded, closed(0, 6), closed(6, 10), empty >>,
       << empty, unbounded, closed(1, 4), closed(3, 7) >>,
       << empty, empty, unbounded, closed(0, 8) >>,
       << empty, empty, empty, unbounded >> >>

\* the matrices a network is built from, with and without labels
NetOperands ==
    { IntervalMatrix(n, n, AnyGrid(n, seed)).val :
        n \in 1..MaxNodes, seed \in ContactSeeds }
    \cup { set_labels(IntervalMatrix(n, n, SymmetricGrid(n, seed)).val, Labels(n)) :
        n \in 1..MaxNodes, seed \in ContactSeeds }
    \cup { IntervalMatrix(n, n, SymmetricGrid(n, seed)).val :
        n \in 1..MaxNodes, seed \in { x \in ContactSeeds : x % 4 = 1 } }
    \cup { set_labels(IntervalMatrix(n, n, UpperGrid(n, seed)).val, Labels(n)) :
        n \in 1..MaxNodes, seed \in ContactSeeds }
    \cup { set_labels(IntervalMatrix(4, 4, array_a).val, << "A", "B", "C", "D" >>) }

\* the times of the queries: every bound and a time between, below and above
Times == (-1)..11

\* the lists of distinct nodes of a network of n nodes, in any order
NodeLists(n) ==
    { S \in UNION { [1..k -> 1..n] : k \in 1..n } :
        \A x, y \in 1..Len(S) : S[x] = S[y] => x = y }

\* the windows handed to get_tvg_window
Windows == { Contacts[k] : k \in 1..Len(Contacts) } \cup { closed(3, 7) }

InitN ==
    /\ a \in NetOperands
    /\ b = a
    /\ c = a
    /\ tn = TVG(a)
    /\ heap = NoHeap
    /\ contacts = << >>
    /\ ret = NoCall

\* tn.get_interval_matrix()
GetIntervalMatrix ==
    /\ ret.op = "none"
    /\ ret' = Call("get_interval_matrix", 0, get_interval_matrix(tn))
    /\ UNCHANGED <<a, b, c, tn, heap, contacts>>

\* tn.get_graph_at(t)
GetGraphAt ==
    /\ ret.op = "none"
    /\ \E t \in Times :
        /\ ret' = Call("get_graph_at", t, Return(get_graph_at(tn, t)))
        /\ UNCHANGED <<a, b, c, tn, heap, contacts>>

\* tn.get_edges_at(t)
GetEdgesAt ==
    /\ ret.op = "none"
    /\ \E t \in Times :
        /\ ret' = Call("get_edges_at", t, Return(get_edges_at(tn, t)))
        /\ UNCHANGED <<a, b, c, tn, heap, contacts>>

\* tn.connected_at(u, v, t); u and v range over the nodes and one id more
ConnectedAt ==
    /\ ret.op = "none"
    /\ \E u \in 1..(Len(tn.nodes) + 1), v \in 1..(Len(tn.nodes) + 1), t \in Times :
        /\ ret' = Call("connected_at", <<u, v, t>>, connected_at(tn, u, v, t))
        /\ UNCHANGED <<a, b, c, tn, heap, contacts>>

\* tn.get_critical_times()
GetCriticalTimes ==
    /\ ret.op = "none"
    /\ ret' = Call("get_critical_times", 0, Return(get_critical_times(tn)))
    /\ UNCHANGED <<a, b, c, tn, heap, contacts>>

\* tn.get_sub_tvg(nodes)
GetSubTvg ==
    /\ ret.op = "none"
    /\ \E nodes \in NodeLists(Len(tn.nodes)) :
        /\ ret' = Call("get_sub_tvg", nodes, get_sub_tvg(tn, nodes))
        /\ UNCHANGED <<a, b, c, tn, heap, contacts>>

\* tn.get_tvg_window(interval)
GetTvgWindow ==
    /\ ret.op = "none"
    /\ \E interval \in Windows :
        /\ ret' = Call("get_tvg_window", interval, get_tvg_window(tn, interval))
        /\ UNCHANGED <<a, b, c, tn, heap, contacts>>

\* the calls on a network
NextN ==
    \/ GetIntervalMatrix
    \/ GetGraphAt
    \/ GetEdgesAt
    \/ ConnectedAt
    \/ GetCriticalTimes
    \/ GetSubTvg
    \/ GetTvgWindow
    \/ Drop

SpecN == InitN /\ [][NextN]_vars

(***************************************************************************)
(* The graph builders are called on the networks of the matrices whose     *)
(* bounds are even, so that the midpoint of two critical times is a time   *)
(* of the model.                                                           *)
(***************************************************************************)
BuilderOperands == { m \in NetOperands : m.array # array_a }

\* explicit sample times: inside and outside the critical times, in
\* increasing order and not, with a time twice
SampleLists ==
    { << 1, 3, 5 >>, << -1, 1, 7 >>, << 0, 2, 4, 6 >>, << 3, 1 >>, << 1, 1 >>,
      << 1, 3, 1 >>, << 2 >> }

\* hop limits: the default float("inf"), and small ones
Limits == { inf, 0, 1 }

Starts == { None, Some(0), Some(2) }

Ends == { None, Some(4) }

InitG ==
    /\ a \in BuilderOperands
    /\ b = a
    /\ c = a
    /\ tn = TVG(a)
    /\ heap = NoHeap
    /\ contacts = << >>
    /\ ret = NoCall

\* tn.get_teg(sample_times, limit, start, end)
GetTeg ==
    /\ ret.op = "none"
    /\ \E sample_times \in {None} \cup { Some(l) : l \in SampleLists },
          limit \in Limits, start \in Starts, end \in Ends :
        /\ ret' = Call("get_teg",
                       [sample_times |-> sample_times, limit |-> limit,
                        start |-> start, end |-> end],
                       get_teg(tn, sample_times, limit, start, end))
        /\ UNCHANGED <<a, b, c, tn, heap, contacts>>

\* supplied clusterings, one list for each number of samples: clusters
\* apart, clusters that overlap, clusters with the same least node, classes
\* that meet two columns further on
ClusterLists ==
    { << << {1, 2} >> >>,
      << << {1, 2} >>, << {1}, {2} >> >>,
      << << {1, 2}, {2, 3} >>, << {1}, {2, 3} >> >>,
      << << {1, 2}, {1, 3} >>, << {1, 2, 3} >> >>,
      << << {1}, {2} >>, << {1, 2} >>, << {1}, {2} >> >>,
      << << {1, 2}, {3} >>, << {3} >>, << {1}, {2, 3} >> >> }

\* tn.get_reeb_graph(sample_times, clusters_list, start, end)
GetReebGraph ==
    /\ ret.op = "none"
    /\ \E sample_times \in {None} \cup { Some(l) : l \in SampleLists },
          clusters_list \in {None} \cup { Some(l) : l \in ClusterLists },
          start \in Starts, end \in Ends :
        /\ ret' = Call("get_reeb_graph",
                       [sample_times |-> sample_times, clusters_list |-> clusters_list,
                        start |-> start, end |-> end],
                       get_reeb_graph(tn, sample_times, clusters_list, start, end))
        /\ UNCHANGED <<a, b, c, tn, heap, contacts>>

\* the calls of the graph builders
NextG ==
    \/ GetTeg
    \/ GetReebGraph
    \/ Drop

SpecG == InitG /\ [][NextG]_vars

(***************************************************************************)
(* The reports: the contacts of one or two links between the platforms A,  *)
(* B and C.  The connections of a link are in order of time.               *)
(***************************************************************************)
Links == { << "A", "B" >>, << "B", "A" >>, << "B", "C" >>, << "A", "C" >> }

Connection(rise, set) == [rise |-> rise, set |-> set]

\* the connections of the docstring (alive for [0, 49] and [51, 100]), and
\* others that begin later, touch, or stand alone
ConnectionLists ==
    { << Connection(0, 49), Connection(51, 100) >>,
      << Connection(10, 49), Connection(51, 100) >>,
      << Connection(10, 20), Connection(20, 30) >>,
      << Connection(10, 20) >>,
      << Connection(2, 30) >> }

ContactOf(link, connections) ==
    [link |-> link, source |-> link[1], target |-> link[2],
     connections |-> connections]

Reports ==
    { << >> }
    \cup { << ContactOf(l, k) >> : l \in Links, k \in ConnectionLists }
    \cup { << ContactOf(l[1], k[1]), ContactOf(l[2], k[2]) >> :
             l \in { x \in Links \X Links : x[1] # x[2] },
             k \in ConnectionLists \X ConnectionLists }

\* delta: the default and a larger one
Deltas == { 1, 5 }

InitP ==
    /\ a = NewMatrix(0, 0, << >>)
    /\ b = a
    /\ c = a
    /\ tn = nx_Graph
    /\ heap = NoHeap
    /\ contacts \in Reports
    /\ ret = NoCall

\* nodes, edges = contact_analysis_report_parser(filepath, delta)
ParseReport ==
    /\ ret.op = "none"
    /\ \E delta \in Deltas :
        ret' = Call("contact_analysis_report_parser", delta,
                    contact_analysis_report_parser(contacts, delta))
    /\ UNCHANGED <<a, b, c, tn, heap, contacts>>

\* contact_plan_to_matrix(nodes, edges) on the plan the parser returned
PlanToMatrix ==
    /\ ret.op = "contact_analysis_report_parser"
    /\ ret.exc = "none"
    /\ ret' = Call("contact_plan_to_matrix", ret.val,
                   contact_plan_to_matrix(ret.val.nodes, ret.val.edges))
    /\ UNCHANGED <<a, b, c, tn, heap, contacts>>

\* the calls of the report parser
NextP ==
    \/ ParseReport
    \/ PlanToMatrix
    \/ Drop

SpecP == InitP /\ [][NextP]_vars

(***************************************************************************)
(* Matrices as objects.  The caller holds two grids (lists of lists) and   *)
(* builds matrices from them and from the results of the operators; ret    *)
(* holds the reference (the place in heap.matrices) a call returned.       *)
(***************************************************************************)
\* the addresses of the grids the caller built
CallerLists == {1, 2}

\* no call pending; a reference is a place in heap.matrices, 0 is no
\* reference
NoRef == [op |-> "none", arg |-> << >>, exc |-> "none", val |-> 0]

InitH ==
    /\ a = NewMatrix(0, 0, << >>)
    /\ b = a
    /\ c = a
    /\ tn = nx_Graph
    /\ contacts = << >>
    /\ \E s1 \in {0, 3}, s2 \in {1, 5} :
          heap = [lists |-> << Grid(2, 2, s1, 1), Grid(2, 2, s2, 1) >>,
                  matrices |-> << >>, writes |-> 0]
    /\ ret = NoRef

\* the references of the matrix objects
Refs == 1..Len(heap.matrices)

\* a call that returns a matrix it built: the new object holds value
ReturnsNew(op, arg, value) ==
    /\ ret.op = "none"
    /\ Len(heap.matrices) < MaxMatrices
    /\ heap' = Allocate(heap, value)
    /\ ret' = Call(op, arg, Return(Len(heap.matrices) + 1))
    /\ UNCHANGED <<a, b, c, tn, contacts>>

\* IntervalMatrix(m, n, grid) for a grid of the caller
NewFromGrid ==
    /\ ret.op = "none"
    /\ Len(heap.matrices) < MaxMatrices
    /\ \E address \in CallerLists :
        /\ heap' = Construct(heap, address)
        /\ ret' = Call("IntervalMatrix", << address >>, Return(Len(heap.matrices) + 1))
    /\ UNCHANGED <<a, b, c, tn, contacts>>

\* 0 + x, as sum() does: __radd__ returns self
RAddZero ==
    /\ ret.op = "none"
    /\ \E x \in Refs :
        ret' = Call("__radd__", << x, 0 >>, Return(x))
    /\ UNCHANGED <<a, b, c, tn, heap, contacts>>

\* x + y
HeapAdd ==
    \E x \in Refs, y \in Refs :
        ReturnsNew("__add__", << x, y >>, __add__(Deref(heap, x), Deref(heap, y)).val)

\* x * y
HeapMul ==
    \E x \in Refs, y \in Refs :
        ReturnsNew("__mul__", << x, y >>, __mul__(Deref(heap, x), Deref(heap, y)).val)

\* x ** n
HeapPow ==
    \E x \in Refs, n \in 0..2 :
        ReturnsNew("__pow__", << x, n >>, __pow__(Deref(heap, x), n).val)

\* x.get_k_cumulant(k)
HeapCumulant ==
    \E x \in Refs, k \in 0..1 :
        ReturnsNew("get_k_cumulant", << x, k >>, get_k_cumulant(Deref(heap, x), k).val)

\* x.get_transpose()
HeapTranspose ==
    \E x \in Refs :
        ReturnsNew("get_transpose", << x >>, get_transpose(Deref(heap, x)).val)

\* x << 1
HeapShift ==
    \E x \in Refs :
        ReturnsNew("__lshift__", << x, 1 >>,
                   __lshift__(Deref(heap, x), [float |-> FALSE, v |-> 1]))

\* ~x
HeapInvert ==
    \E x \in Refs :
        ReturnsNew("__invert__", << x >>, __invert__(Deref(heap, x)))

\* x.get_window(interval)
HeapWindow ==
    \E x \in Refs, interval \in { closed(0, 2), closed(1, 3) } :
        ReturnsNew("get_window", << x, interval >>, get_window(Deref(heap, x), interval))

\* x[i, j] = value; it returns None, no reference
AssignCell ==
    /\ ret.op = "none"
    /\ heap.writes < MaxWrites
    /\ \E x \in Refs, i \in 1..2, j \in 1..2, value \in { empty, closed(2, 2) } :
        /\ heap' = AssignItem(heap, x, i, j, value)
        /\ ret' = Call("__setitem__", << x, i, j, value >>, Return(0))
    /\ UNCHANGED <<a, b, c, tn, contacts>>

\* a returned reference is taken
DropRef ==
    /\ ret.op # "none"
    /\ ret' = NoRef
    /\ UNCHANGED <<a, b, c, tn, heap, contacts>>

\* the calls on matrix objects
NextH ==
    \/ NewFromGrid
    \/ RAddZero
    \/ HeapAdd
    \/ HeapMul
    \/ HeapPow
    \/ HeapCumulant
    \/ HeapTranspose
    \/ HeapShift
    \/ HeapInvert
    \/ HeapWindow
    \/ AssignCell
    \/ DropRef

SpecH == InitH /\ [][NextH]_vars

(***************************************************************************)
(* What an interval set means, independently of how it is computed: the    *)
(* set of reals it holds.  All bounds of the operands are integers, so two *)
(* interval sets built from them by union, intersection and complement     *)
(* hold the same reals iff they agree on every bound and on one point      *)
(* between, below and above the bounds.  A sample point is given doubled   *)
(* (x2 = 2 * x), so that the midpoints are integers.                       *)
(***************************************************************************)
PaletteBounds ==
    UNION { UNION { { Palette[k][l].lower, Palette[k][l].upper } :
                    l \in 1..Len(Palette[k]) } :
            k \in 1..Len(Palette) }

SamplePoints ==
    UNION { {2 * v - 1, 2 * v, 2 * v + 1} : v \in { w \in PaletteBounds : ~IsInf(w) } }

Holds(I, x2) ==
    \E l \in 1..Len(I) :
        /\ (2 * I[l].lower < x2 \/ (2 * I[l].lower = x2 /\ I[l].left = "CLOSED"))
        /\ (x2 < 2 * I[l].upper \/ (2 * I[l].upper = x2 /\ I[l].right = "CLOSED"))

\* the normal form of an interval set: non-empty pieces, in order, no two
\* of which touch or overlap; then equal sets are equal values
Canonical(I) ==
    /\ \A l \in 1..Len(I) :
          /\ \/ I[l].lower < I[l].upper
             \/ (I[l].lower = I[l].upper /\ I[l].left = "CLOSED" /\ I[l].right = "CLOSED")
          /\ IsInf(I[l].lower) => I[l].left = "OPEN"
          /\ IsInf(I[l].upper) => I[l].right = "OPEN"
    /\ \A l \in 1..(Len(I) - 1) :
          \/ I[l].upper < I[l + 1].lower
          \/ (I[l].upper = I[l + 1].lower /\ I[l].right = "OPEN" /\ I[l + 1].left = "OPEN")

\* M is a well-formed rows x cols matrix of interval sets in normal form
WellFormed(M, rows, cols) ==
    /\ M.dim_row = rows /\ M.dim_col = cols
    /\ Len(M.array) = rows
    /\ \A i \in 1..rows : Len(M.array[i]) = cols
    /\ \A i \in 1..rows, j \in 1..cols : Canonical(M.array[i][j])

SameShape(M, N) == M.dim_row = N.dim_row /\ M.dim_col = N.dim_col

\* both calls return, and return equal matrices (x == y is True)
EqOut(x, y) == x.exc = "none" /\ y.exc = "none" /\ __eq__(x.val, y.val)

(***************************************************************************)
(* C1.  multiply(A, B) of an m x k matrix A and a k x n matrix B returns   *)
(* the m x n matrix C in which C[i,j] holds exactly the reals that lie in  *)
(* A[i,t] and in B[t,j] for some t, i.e. the union over t of               *)
(* A[i,t] /\ B[t,j]; a cell all of whose terms are empty is P.empty().     *)
(***************************************************************************)
C1_MultiplyIsUnionOfIntersections ==
    (ret.op = "mul" /\ a.dim_col = b.dim_row) =>
        /\ ret.exc = "none"
        /\ WellFormed(ret.val, a.dim_row, b.dim_col)
        /\ \A i \in 1..a.dim_row, j \in 1..b.dim_col :
              /\ \A x \in SamplePoints :
                    Holds(Get(ret.val, i, j), x)
                    <=> \E t \in 1..a.dim_col :
                            Holds(Get(a, i, t), x) /\ Holds(Get(b, t, j), x)
              /\ (\A t \in 1..a.dim_col :
                    \A x \in SamplePoints :
                        ~(Holds(Get(a, i, t), x) /\ Holds(Get(b, t, j), x)))
                 => Get(ret.val, i, j) = empty

\* a product over k = 2 with a cell made of two non-empty terms that do not
\* merge, and a cell that is empty though none of its factors is
C1_Witness ==
    /\ ret.op = "mul" /\ ret.exc = "none"
    /\ a.dim_col = 2
    /\ \E i \in 1..a.dim_row, j \in 1..b.dim_col :
          /\ Len(Get(ret.val, i, j)) = 2
          /\ Intersection(Get(a, i, 1), Get(b, 1, j)) # empty
          /\ Intersection(Get(a, i, 2), Get(b, 2, j)) # empty
    /\ \E i \in 1..a.dim_row, j \in 1..b.dim_col :
          /\ Get(ret.val, i, j) = empty
          /\ \A t \in 1..2 : Get(a, i, t) # empty /\ Get(b, t, j) # empty

(***************************************************************************)
(* C2.  add(A, B) of matrices of equal dimensions is the cell-wise union:  *)
(* add(A, B)[i,j] holds exactly the reals of A[i,j] and of B[i,j]; add is  *)
(* commutative, associative and idempotent.                                *)
(***************************************************************************)
C2_AddIsCellwiseUnion ==
    (ret.op = "add" /\ SameShape(a, b)) =>
        /\ ret.exc = "none"
        /\ WellFormed(ret.val, a.dim_row, a.dim_col)
        /\ \A i \in 1..a.dim_row, j \in 1..a.dim_col : \A x \in SamplePoints :
              Holds(Get(ret.val, i, j), x)
              <=> (Holds(Get(a, i, j), x) \/ Holds(Get(b, i, j), x))
        /\ EqOut(Return(ret.val), __add__(b, a))
        /\ EqOut(__add__(a, a), Return(a))
        /\ LET bc == __add__(b, c)
           IN  /\ bc.exc = "none"
               /\ EqOut(__add__(ret.val, c), __add__(a, bc.val))

\* three pairwise different 2 x 2 operands whose sum differs from each
C2_Witness ==
    /\ ret.op = "add" /\ ret.exc = "none"
    /\ a.dim_row = 2 /\ a.dim_col = 2 /\ SameShape(a, b)
    /\ a # b /\ b # c /\ a # c
    /\ ret.val # a /\ ret.val # b
    /\ __add__(ret.val, c).val # ret.val

(***************************************************************************)
(* C3.  identity(m) has the unbounded interval on the diagonal and the     *)
(* empty interval elsewhere; for an m x n matrix A,                        *)
(* multiply(A, identity(n)) == A and multiply(identity(m), A) == A; and    *)
(* multiply(A, add(B, C)) == add(multiply(A, B), multiply(A, C)).          *)
(***************************************************************************)
C3_SemiringLaws ==
    /\ ret.op = "identity" =>
          /\ ret.exc = "none"
          /\ WellFormed(ret.val, ret.arg, ret.arg)
          /\ \A i \in 1..ret.arg, j \in 1..ret.arg :
                Get(ret.val, i, j) = IF i = j THEN unbounded ELSE empty
          /\ ret.arg = a.dim_col => EqOut(__mul__(a, ret.val), Return(a))
          /\ ret.arg = a.dim_row => EqOut(__mul__(ret.val, a), Return(a))
    /\ (ret.op = "addbc" /\ a.dim_col = b.dim_row) =>
          /\ ret.exc = "none"
          /\ LET ab == __mul__(a, b)
                 ac == __mul__(a, c)
             IN  /\ ab.exc = "none" /\ ac.exc = "none"
                 /\ EqOut(__mul__(a, ret.val), __add__(ab.val, ac.val))

\* a non-square A (1 x 2) times a sum B + C that is neither B nor C, with
\* a product that is not empty
C3_Witness ==
    /\ ret.op = "addbc" /\ ret.exc = "none"
    /\ a.dim_row = 1 /\ a.dim_col = 2 /\ b.dim_row = 2 /\ b.dim_col = 2
    /\ ret.val # b /\ ret.val # c
    /\ __mul__(a, ret.val).val # __mul__(a, b).val
    /\ __mul__(a, ret.val).val # __mul__(a, c).val

(***************************************************************************)
(* C4.  For a square matrix A, power(n) is the identity matrix when        *)
(* n <= 0 and the n-fold product A (x) A (x) ... (x) A when n >= 1;        *)
(* power(2) == multiply(A, A) and, for even n,                             *)
(* power(n) == multiply(power(n/2), power(n/2)).                           *)
(***************************************************************************)
\* the n-fold product, multiplied out one factor at a time (n >= 1)
RECURSIVE NFoldProduct(_, _)
NFoldProduct(A, n) ==
    IF n <= 1 THEN Return(A)
    ELSE LET p == NFoldProduct(A, n - 1)
         IN  IF p.exc # "none" THEN p ELSE __mul__(p.val, A)

C4_PowerIsNFoldProduct ==
    (ret.op = "pow" /\ a.dim_row = a.dim_col) =>
        /\ ret.exc = "none"
        /\ WellFormed(ret.val, a.dim_row, a.dim_row)
        /\ ret.arg <= 0 => EqOut(Return(ret.val), Return(identity_matrix(a.dim_row)))
        /\ ret.arg >= 1 => EqOut(Return(ret.val), NFoldProduct(a, ret.arg))
        /\ ret.arg = 2 => EqOut(Return(ret.val), __mul__(a, a))
        /\ (ret.arg >= 2 /\ ret.arg % 2 = 0) =>
              LET h == __pow__(a, ret.arg \div 2)
              IN  h.exc = "none" /\ EqOut(Return(ret.val), __mul__(h.val, h.val))

\* an odd power n >= 3 of a 2 x 2 matrix that differs from A, from A (x) A
\* and from the identity
C4_Witness ==
    /\ ret.op = "pow" /\ ret.exc = "none"
    /\ ret.arg >= 3 /\ ret.arg % 2 = 1
    /\ a.dim_row = 2 /\ a.dim_col = 2
    /\ ret.val # a
    /\ ret.val # __mul__(a, a).val
    /\ ret.val # identity_matrix(2)

(***************************************************************************)
(* C5.  For a square matrix A and k >= 0, cumulant(k) is the entrywise     *)
(* union of power(0), ..., power(k): a cell holds exactly the reals held   *)
(* by that cell of some power(i), i <= k.  cumulant(0) == identity, and    *)
(* cumulant(k) in cumulant(k + 1) is True.                                 *)
(***************************************************************************)
C5_CumulantIsUnionOfPowers ==
    (ret.op = "cumulant" /\ a.dim_row = a.dim_col) =>
        /\ ret.exc = "none"
        /\ WellFormed(ret.val, a.dim_row, a.dim_row)
        /\ \A i \in 1..a.dim_row, j \in 1..a.dim_row : \A x \in SamplePoints :
              Holds(Get(ret.val, i, j), x)
              <=> \E n \in 0..ret.arg :
                     LET p == __pow__(a, n)
                     IN  p.exc = "none" /\ Holds(Get(p.val, i, j), x)
        /\ ret.arg = 0 => EqOut(Return(ret.val), Return(identity_matrix(a.dim_row)))
        /\ LET next == get_k_cumulant(a, ret.arg + 1)
           IN  next.exc = "none" /\ __contains__(next.val, ret.val)

\* a cumulant over k >= 2 hops that holds more than cumulant(k - 1), which
\* holds more than cumulant(k - 2): walks of every length up to k count
C5_Witness ==
    /\ ret.op = "cumulant" /\ ret.exc = "none"
    /\ ret.arg >= 2
    /\ get_k_cumulant(a, ret.arg - 1).val # ret.val
    /\ get_k_cumulant(a, ret.arg - 2).val # get_k_cumulant(a, ret.arg - 1).val

(***************************************************************************)
(* C6.  Incompatible shapes are rejected before any cell is computed: add  *)
(* on matrices of different dimensions, multiply with A.cols # B.rows, and *)
(* power and cumulant on a non-square matrix raise ValueError, return no   *)
(* matrix (truncated, padded or other), and leave the operands as they     *)
(* were.                                                                   *)
(***************************************************************************)
\* the call recorded in r was made on operands of incompatible shapes
Incompatible(r, A, B) ==
    \/ r.op = "add" /\ ~SameShape(A, B)
    \/ r.op = "mul" /\ A.dim_col # B.dim_row
    \/ r.op = "pow" /\ A.dim_row # A.dim_col
    \/ r.op = "cumulant" /\ A.dim_row # A.dim_col

C6_IncompatibleShapesRaise ==
    [][ Incompatible(ret', a, b) =>
            /\ ret'.exc = "ValueError"
            /\ ret'.val = NoValue
            /\ a' = a /\ b' = b /\ c' = c ]_vars

\* add on two operands with the same number of rows and different numbers
\* of columns has raised
C6_Witness ==
    /\ ret.op = "add" /\ ret.exc = "ValueError"
    /\ a.dim_row = b.dim_row /\ a.dim_col < b.dim_col

(***************************************************************************)
(* C7.  contains(A, B) (B in A) is True iff A and B have the same          *)
(* dimensions and every cell of B is a subset of the same cell of A;       *)
(* equals(A, B) is True iff they have the same dimensions and every pair   *)
(* of cells holds the same reals; on a dimension mismatch both return      *)
(* False and neither raises.                                               *)
(***************************************************************************)
C7_ContainsAndEquals ==
    /\ ret.op = "contains" =>
          /\ ret.exc = "none"
          /\ ret.val <=>
                /\ SameShape(a, b)
                /\ \A i \in 1..a.dim_row, j \in 1..a.dim_col : \A x \in SamplePoints :
                      Holds(Get(b, i, j), x) => Holds(Get(a, i, j), x)
    /\ ret.op = "eq" =>
          /\ ret.exc = "none"
          /\ ret.val <=>
                /\ SameShape(a, b)
                /\ \A i \in 1..a.dim_row, j \in 1..a.dim_col : \A x \in SamplePoints :
                      Holds(Get(b, i, j), x) <=> Holds(Get(a, i, j), x)

\* B in A is True for two different matrices with more than one cell, and
\* A in B is not
C7_Witness ==
    /\ ret.op = "contains" /\ ret.val = TRUE
    /\ a # b /\ a.dim_row * a.dim_col >= 2
    /\ ~__contains__(b, a)

(***************************************************************************)
(* C8.  get_transpose of an m x n matrix always succeeds, also when        *)
(* m # n: it returns a fresh n x m matrix whose cell (j, i) is the         *)
(* source's cell (i, j), leaves the source unchanged, and transposing the  *)
(* result gives back a matrix equal to the source.                         *)
(***************************************************************************)
C8_TransposeAlwaysSucceeds ==
    ret.op = "transpose" =>
        /\ ret.exc = "none"
        /\ WellFormed(ret.val, a.dim_col, a.dim_row)
        /\ \A i \in 1..a.dim_row, j \in 1..a.dim_col :
              Get(ret.val, j, i) = Get(a, i, j)
        /\ EqOut(get_transpose(ret.val), Return(a))
        /\ (/\ a.dim_row = a.dim_col
            /\ \A i \in 1..a.dim_row, j \in 1..a.dim_col :
                  Get(a, i, j) = Get(a, j, i)) => __eq__(ret.val, a)

(***************************************************************************)
(* C9.  Shifting left by t and then right by t gives back a matrix equal   *)
(* to the original, for every shift amount t; infinite bounds stay         *)
(* infinite and empty cells stay empty.  (Statement of the specification.) *)
(***************************************************************************)
C9_ShiftRoundTripEveryAmount ==
    ret.op = "lshift" =>
        /\ ret.exc = "none"
        /\ __eq__(__rshift__(ret.val, ret.arg), a)

\* the cell J is the cell I with every finite bound moved by d
MovedBy(I, J, d) ==
    /\ Len(J) = Len(I)
    /\ \A l \in 1..Len(I) :
          /\ J[l].left = I[l].left /\ J[l].right = I[l].right
          /\ J[l].lower = IF IsInf(I[l].lower) THEN I[l].lower ELSE I[l].lower + d
          /\ J[l].upper = IF IsInf(I[l].upper) THEN I[l].upper ELSE I[l].upper + d

(***************************************************************************)
(* C9 (amended).  For an integer shift amount t, A << t moves every finite *)
(* bound of every cell by -t and A >> t by +t, keeping the kind of each    *)
(* bound; infinite bounds stay infinite and empty cells stay empty; and    *)
(* (A << t) >> t is equal to A.                                            *)
(***************************************************************************)
C9_IntegerShiftRoundTrip ==
    (ret.op \in {"lshift", "rshift"} /\ ~ret.arg.float) =>
        /\ ret.exc = "none"
        /\ WellFormed(ret.val, a.dim_row, a.dim_col)
        /\ \A i \in 1..a.dim_row, j \in 1..a.dim_col :
              MovedBy(Get(a, i, j), Get(ret.val, i, j),
                      IF ret.op = "lshift" THEN 0 - ret.arg.v ELSE ret.arg.v)
        /\ ret.op = "lshift" => __eq__(__rshift__(ret.val, ret.arg), a)

\* a shift to the left by a non-zero integer of a matrix with an empty cell,
\* a cell of two pieces and a cell with an infinite bound
C9_Witness ==
    /\ ret.op = "lshift" /\ ~ret.arg.float /\ ret.arg.v # 0
    /\ ret.exc = "none"
    /\ \E i \in 1..a.dim_row, j \in 1..a.dim_col : Get(a, i, j) = empty
    /\ \E i \in 1..a.dim_row, j \in 1..a.dim_col : Len(Get(a, i, j)) = 2
    /\ \E i \in 1..a.dim_row, j \in 1..a.dim_col :
          /\ Get(a, i, j) # empty
          /\ IsInf(Lower(Get(a, i, j)))

(***************************************************************************)
(* C10.  ~(~A) is equal to A, and A + ~A is equal to                       *)
(* constant_matrix(m, n, unbounded), for every matrix A of dimensions      *)
(* m x n.                                                                  *)
(***************************************************************************)
C10_ComplementLaws ==
    ret.op = "invert" =>
        /\ ret.exc = "none"
        /\ __eq__(__invert__(ret.val), a)
        /\ constant_matrix(a.dim_row, a.dim_col, unbounded).exc = "none"
        /\ EqOut(__add__(a, ret.val), constant_matrix(a.dim_row, a.dim_col, unbounded))

(***************************************************************************)
(* C11.  The network built from an n x n matrix M has exactly the nodes    *)
(* of M's rows, node k labelled with M's label of row k, or with the       *)
(* stringified index when M has no labels; it has an edge {i, j}, i < j,   *)
(* with contacts M[i, j], exactly for the cells above the diagonal that    *)
(* are not empty; no edge is a self-loop and no edge has empty contacts.   *)
(***************************************************************************)
C11_NetworkFromMatrix ==
    LET n == a.dim_row
    IN  /\ Len(tn.nodes) = n
        /\ \A k \in 1..n :
              tn.nodes[k] = IF HasLabels(a) THEN a.labels[k] ELSE ToString(k - 1)
        /\ \A i \in 1..n, j \in 1..n :
              i < j =>
                 IF Get(a, i, j) = << >>
                 THEN ~\E e \in 1..Len(tn.edges) : {tn.edges[e].u, tn.edges[e].v} = {i, j}
                 ELSE \E e \in 1..Len(tn.edges) :
                         /\ tn.edges[e].u = i /\ tn.edges[e].v = j
                         /\ tn.edges[e].contacts = Get(a, i, j)
        /\ \A e \in 1..Len(tn.edges) :
              /\ tn.edges[e].u \in 1..n /\ tn.edges[e].v \in 1..n
              /\ tn.edges[e].u # tn.edges[e].v
              /\ tn.edges[e].contacts # << >>
        /\ \A e \in 1..Len(tn.edges), f \in 1..Len(tn.edges) :
              {tn.edges[e].u, tn.edges[e].v} = {tn.edges[f].u, tn.edges[f].v} => e = f

\* a network of three nodes or more built from a matrix without labels that
\* has an empty cell above the diagonal whose mirror cell is not empty, and
\* a diagonal cell that is not empty
C11_Witness ==
    /\ ~HasLabels(a) /\ a.dim_row >= 3
    /\ Len(tn.edges) >= 2
    /\ Get(a, 1, 1) # << >>
    /\ \E i \in 1..a.dim_row, j \in 1..a.dim_row :
          i < j /\ Get(a, i, j) = << >> /\ Get(a, j, i) # << >>

(***************************************************************************)
(* C12.  get_interval_matrix of a network of n nodes returns the n x n     *)
(* matrix whose diagonal cells are unbounded, whose cells (i, j) and       *)
(* (j, i) both are the contacts of the edge {i, j}, for every edge, and    *)
(* whose other cells are empty; the matrix is symmetric.                   *)
(***************************************************************************)
C12_MatrixOfNetworkIsSymmetric ==
    ret.op = "get_interval_matrix" =>
        /\ ret.exc = "none"
        /\ WellFormed(ret.val, Len(tn.nodes), Len(tn.nodes))
        /\ \A i \in 1..Len(tn.nodes), j \in 1..Len(tn.nodes) :
              Get(ret.val, i, j) =
                 IF i = j THEN unbounded
                 ELSE IF \E e \in 1..Len(tn.edges) : {tn.edges[e].u, tn.edges[e].v} = {i, j}
                      THEN LET e == CHOOSE x \in 1..Len(tn.edges) :
                                       {tn.edges[x].u, tn.edges[x].v} = {i, j}
                           IN  tn.edges[e].contacts
                      ELSE << >>
        /\ is_symmetric(ret.val)

(***************************************************************************)
(* C13.  Round trip: for every square matrix M with an unbounded diagonal  *)
(* and M[i, j] == M[j, i] for all i # j, the matrix of the network built   *)
(* from M is equal to M.                                                   *)
(***************************************************************************)
C13_NetworkRoundTrip ==
    (/\ ret.op = "get_interval_matrix"
     /\ \A i \in 1..a.dim_row : Get(a, i, i) = unbounded
     /\ \A i \in 1..a.dim_row, j \in 1..a.dim_row : Get(a, i, j) = Get(a, j, i))
    => (ret.exc = "none" /\ __eq__(ret.val, a))

\* the pairs {u, v} joined by an edge of the graph G
EdgeSet(G) == { {G.edges[e].u, G.edges[e].v} : e \in 1..Len(G.edges) }

\* the pairs joined in the network N by an edge whose contacts hold the time t
AliveAt(N, t) ==
    { {N.edges[e].u, N.edges[e].v} :
        e \in { x \in 1..Len(N.edges) : Holds(N.edges[x].contacts, 2 * t) } }

(***************************************************************************)
(* C14.  get_graph_at(t) has the nodes of the network (isolated nodes      *)
(* kept) and has the edge {i, j} iff t is in the contacts of that edge;    *)
(* get_edges_at(t) lists exactly the edges of get_graph_at(t); taking a    *)
(* snapshot leaves the network unchanged.                                  *)
(***************************************************************************)
C14_SnapshotKeepsAliveEdges ==
    [][ /\ ret'.op = "get_graph_at" =>
              /\ ret'.val.nodes = tn.nodes
              /\ EdgeSet(ret'.val) = AliveAt(tn, ret'.arg)
              /\ \A e \in 1..Len(ret'.val.edges) :
                    \E f \in 1..Len(tn.edges) : ret'.val.edges[e] = tn.edges[f]
        /\ ret'.op = "get_edges_at" =>
              /\ { {ret'.val[k][1], ret'.val[k][2]} : k \in 1..Len(ret'.val) }
                    = EdgeSet(get_graph_at(tn, ret'.arg))
              /\ Len(ret'.val) = Cardinality(EdgeSet(get_graph_at(tn, ret'.arg)))
        /\ ret'.op \in {"get_graph_at", "get_edges_at"} => tn' = tn ]_vars

\* a snapshot of a network of three nodes or more that keeps one edge, drops
\* another and leaves a node without edges
C14_Witness ==
    /\ ret.op = "get_graph_at"
    /\ Len(tn.nodes) >= 3
    /\ Len(ret.val.edges) >= 1
    /\ Len(ret.val.edges) < Len(tn.edges)
    /\ \E k \in 1..Len(tn.nodes) : \A e \in EdgeSet(ret.val) : k \notin e

\* the nodes a walk of exactly k alive edges from u ends in
RECURSIVE WalkEnds(_, _, _, _)
WalkEnds(N, t, u, k) ==
    IF k = 0 THEN {u}
    ELSE LET before == WalkEnds(N, t, u, k - 1)
             alive == AliveAt(N, t)
         IN  { w \in 1..Len(N.nodes) : \E x \in before : {x, w} \in alive }

(***************************************************************************)
(* C15.  connected_at(u, v, t) returns the least number of edges of a path *)
(* between u and v in get_graph_at(t); it returns 0 when there is no such  *)
(* path and when u == v; for nodes u, v of the network it never raises.    *)
(***************************************************************************)
C15_HopCountIsShortestPath ==
    (/\ ret.op = "connected_at"
     /\ ret.arg[1] \in 1..Len(tn.nodes)
     /\ ret.arg[2] \in 1..Len(tn.nodes)) =>
        LET u == ret.arg[1]
            v == ret.arg[2]
            t == ret.arg[3]
            lengths == { k \in 0..Len(tn.nodes) : v \in WalkEnds(tn, t, u, k) }
        IN  /\ ret.exc = "none"
            /\ ret.val = IF lengths = {} THEN 0
                         ELSE CHOOSE k \in lengths : \A l \in lengths : k <= l

\* the network of array_a at time 8: nodes 0 and 3 (here 1 and 4) are two
\* hops apart
C15_Witness ==
    /\ ret.op = "connected_at"
    /\ a.array = array_a
    /\ ret.arg = <<1, 4, 8>>
    /\ ret.val = 2

\* the lower and upper bounds of the pieces of the contacts of the edges
BoundsOfContacts(N) ==
    { x \in Times \cup {inf, -inf} :
        \E e \in 1..Len(N.edges) : \E i \in 1..Len(N.edges[e].contacts) :
            x = N.edges[e].contacts[i].lower \/ x = N.edges[e].contacts[i].upper }

(***************************************************************************)
(* C16.  get_critical_times() returns a strictly increasing list whose     *)
(* values are exactly the lower and upper bounds of the sub-ranges of the  *)
(* contacts of the edges: each of them once, and nothing else.             *)
(***************************************************************************)
C16_CriticalTimesAreTheBounds ==
    ret.op = "get_critical_times" =>
        /\ \A k \in 1..(Len(ret.val) - 1) : ret.val[k] < ret.val[k + 1]
        /\ { ret.val[k] : k \in 1..Len(ret.val) } = BoundsOfContacts(tn)
        /\ \A e \in 1..Len(tn.edges) : \A i \in 1..Len(tn.edges[e].contacts) :
              /\ \E k \in 1..Len(ret.val) : ret.val[k] = tn.edges[e].contacts[i].lower
              /\ \E k \in 1..Len(ret.val) : ret.val[k] = tn.edges[e].contacts[i].upper

\* the critical times of the network of array_a
C16_Witness ==
    /\ ret.op = "get_critical_times"
    /\ a.array = array_a
    /\ ret.val = << 0, 1, 3, 4, 6, 7, 8, 10 >>

(***************************************************************************)
(* C17.  Between two consecutive critical times t1 < t2 the snapshot does  *)
(* not change: get_graph_at(t) has the same edges for every t with         *)
(* t1 < t < t2, whatever the kinds (open, closed) of the bounds.           *)
(***************************************************************************)
C17_SnapshotConstantBetweenCriticalTimes ==
    ret.op = "get_critical_times" =>
        \A k \in 1..(Len(ret.val) - 1) :
            \A t \in Times, s \in Times :
                (ret.val[k] < t /\ t < ret.val[k + 1] /\ ret.val[k] < s /\ s < ret.val[k + 1])
                => get_graph_at(tn, t) = get_graph_at(tn, s)

\* two consecutive critical times with three times between them, at which
\* an edge is alive that is not alive at the first of the two critical
\* times, and another gap in which the snapshot is a different one
C17_Witness ==
    /\ ret.op = "get_critical_times"
    /\ \E k \in 1..(Len(ret.val) - 1) :
          /\ ret.val[k] + 4 = ret.val[k + 1]
          /\ get_graph_at(tn, ret.val[k] + 1).edges # << >>
          /\ get_graph_at(tn, ret.val[k] + 1) # get_graph_at(tn, ret.val[k])
          /\ \E l \in 1..(Len(ret.val) - 1) :
                /\ ret.val[l] + 1 < ret.val[l + 1] /\ ~IsInf(ret.val[l])
                /\ get_graph_at(tn, ret.val[l] + 1) # get_graph_at(tn, ret.val[k] + 1)

\* the time t lies between the first and the last of the critical times ct
BetweenFirstAndLast(ct, t) ==
    /\ ct # << >>
    /\ ct[1] <= t /\ t <= ct[Len(ct)]

(***************************************************************************)
(* C18.  The critical times are a sufficient sampling grid: for every time *)
(* t between the first and the last critical time, get_graph_at(t) has the *)
(* same edges as get_graph_at(c) for some critical time c.  (Statement of  *)
(* the specification.)                                                     *)
(***************************************************************************)
C18_CriticalTimesAreSufficientGrid ==
    ret.op = "get_critical_times" =>
        \A t \in Times :
            BetweenFirstAndLast(ret.val, t) =>
                \E k \in 1..Len(ret.val) :
                    EdgeSet(get_graph_at(tn, ret.val[k])) = EdgeSet(get_graph_at(tn, t))

\* a time strictly between the consecutive critical times x < y
InGap(x, y) ==
    IF ~IsInf(x) THEN x + 1
    ELSE IF ~IsInf(y) THEN y - 1
    ELSE 0

\* the critical times ct and one time inside every gap between two
\* consecutive ones
GridWithGaps(ct) ==
    { ct[k] : k \in 1..Len(ct) }
    \cup { InGap(ct[k], ct[k + 1]) :
             k \in { l \in 1..(Len(ct) - 1) :
                       ct[l] < InGap(ct[l], ct[l + 1]) /\ InGap(ct[l], ct[l + 1]) < ct[l + 1] } }

(***************************************************************************)
(* C18 (amended).  The critical times together with one time strictly      *)
(* inside each gap between two consecutive critical times are a sufficient *)
(* sampling grid: for every time t between the first and the last critical *)
(* time, get_graph_at(t) has the same edges as get_graph_at(s) for some s  *)
(* of that grid.  The critical times alone are not: the snapshot inside a  *)
(* gap can differ from the snapshot at every critical time.                *)
(***************************************************************************)
C18_CriticalTimesAndGapsAreSufficientGrid ==
    ret.op = "get_critical_times" =>
        \A t \in Times :
            BetweenFirstAndLast(ret.val, t) =>
                \E s \in GridWithGaps(ret.val) :
                    EdgeSet(get_graph_at(tn, s)) = EdgeSet(get_graph_at(tn, t))

\* a network with a time between its first and last critical time whose
\* snapshot is the snapshot of none of the critical times
C18_Witness ==
    /\ ret.op = "get_critical_times"
    /\ Len(ret.val) >= 3
    /\ \E t \in Times :
          /\ BetweenFirstAndLast(ret.val, t)
          /\ \A k \in 1..Len(ret.val) :
                EdgeSet(get_graph_at(tn, ret.val[k])) # EdgeSet(get_graph_at(tn, t))

\* the network N has an edge between the nodes x and y with contacts k
Joined(N, x, y, k) ==
    \E e \in 1..Len(N.edges) :
        /\ {N.edges[e].u, N.edges[e].v} = {x, y}
        /\ N.edges[e].contacts = k

(***************************************************************************)
(* C19.  For every list S of distinct nodes, in any order, get_sub_tvg(S)  *)
(* is a network of |S| nodes in which an edge joins the positions x and y  *)
(* with contacts k iff the network has an edge between S[x] and S[y] with  *)
(* contacts k.                                                             *)
(***************************************************************************)
C19_SubNetworkIsInduced ==
    ret.op = "get_sub_tvg" =>
        /\ ret.exc = "none"
        /\ Len(ret.val.nodes) = Len(ret.arg)
        /\ \A x \in 1..Len(ret.arg), y \in 1..Len(ret.arg) :
              /\ \A e \in 1..Len(tn.edges) :
                    {tn.edges[e].u, tn.edges[e].v} = {ret.arg[x], ret.arg[y]}
                    => Joined(ret.val, x, y, tn.edges[e].contacts)
              /\ \A e \in 1..Len(ret.val.edges) :
                    {ret.val.edges[e].u, ret.val.edges[e].v} = {x, y}
                    => Joined(tn, ret.arg[x], ret.arg[y], ret.val.edges[e].contacts)

\* the reals of the doubled sample x2 that the contacts of the edge {i, j}
\* of N hold (none when N has no such edge)
ContactsHold(N, i, j, x2) ==
    \E e \in 1..Len(N.edges) :
        /\ {N.edges[e].u, N.edges[e].v} = {i, j}
        /\ Holds(N.edges[e].contacts, x2)

\* doubled sample points: every bound of a contact or window, and a point
\* between, below and above them
NetSamplePoints == (-2)..22

(***************************************************************************)
(* C20.  get_tvg_window(I) returns a new network on the same node ids in   *)
(* which the edge {i, j} exists, with contacts the part of the original    *)
(* contacts that lies in I, iff that part is not empty; an edge whose      *)
(* windowed contacts are empty is dropped; the original network is         *)
(* unchanged.                                                              *)
(***************************************************************************)
C20_WindowedNetwork ==
    [][ ret'.op = "get_tvg_window" =>
          /\ ret'.exc = "none"
          /\ Len(ret'.val.nodes) = Len(tn.nodes)
          /\ \A i \in 1..Len(tn.nodes), j \in 1..Len(tn.nodes) :
                i < j =>
                   \A x2 \in NetSamplePoints :
                       ContactsHold(ret'.val, i, j, x2)
                       <=> (ContactsHold(tn, i, j, x2) /\ Holds(ret'.arg, x2))
          /\ \A e \in 1..Len(ret'.val.edges) :
                /\ ret'.val.edges[e].u \in 1..Len(tn.nodes)
                /\ ret'.val.edges[e].v \in 1..Len(tn.nodes)
                /\ ret'.val.edges[e].u # ret'.val.edges[e].v
                /\ ret'.val.edges[e].contacts # << >>
                /\ Canonical(ret'.val.edges[e].contacts)
          /\ \A e \in 1..Len(ret'.val.edges), f \in 1..Len(ret'.val.edges) :
                {ret'.val.edges[e].u, ret'.val.edges[e].v}
                    = {ret'.val.edges[f].u, ret'.val.edges[f].v} => e = f
          /\ tn' = tn ]_vars

\* a window that drops one edge of the network and cuts the contacts of
\* another
C20_Witness ==
    /\ ret.op = "get_tvg_window"
    /\ ret.exc = "none"
    /\ Len(ret.val.edges) >= 1
    /\ Len(ret.val.edges) < Len(tn.edges)
    /\ \E e \in 1..Len(ret.val.edges) :
          ~Joined(tn, ret.val.edges[e].u, ret.val.edges[e].v, ret.val.edges[e].contacts)

\* the sample times of a call that lie in the range the caller gave: a bound
\* the caller left out does not restrict
InGivenRange(args, t) ==
    /\ args.start.some => args.start.v <= t
    /\ args.end.some => t <= args.end.v

\* the sample sequence of a call of get_teg: the explicit one, or the
\* critical times
SampleSequence(N, args) ==
    IF args.sample_times.some THEN args.sample_times.v ELSE get_critical_times(N)

(***************************************************************************)
(* C21.  The graph of get_teg has exactly the nodes (n, t) for the nodes n *)
(* of the network and the sample times t of the sequence (explicit, or the *)
(* critical times) that lie within [start, end]; a bound that is omitted   *)
(* does not restrict, so with both omitted every supplied sample time has  *)
(* its layer.                                                              *)
(***************************************************************************)
C21_TegNodesForEverySampleInRange ==
    (ret.op = "get_teg" /\ ret.exc = "none") =>
        LET given == SampleSequence(tn, ret.arg)
        IN  ret.val.nodes =
              { <<n, given[k]>> :
                  n \in 1..Len(tn.nodes),
                  k \in { x \in 1..Len(given) : InGivenRange(ret.arg, given[x]) } }

\* the sample times get_teg retains: an omitted start is the first critical
\* time, an omitted end the last one
RetainedSamples(N, args) ==
    LET critical_times == get_critical_times(N)
        first == IF args.start.some THEN args.start.v ELSE critical_times[1]
        last == IF args.end.some THEN args.end.v
                ELSE critical_times[Len(critical_times)]
    IN  SelectSeq(SampleSequence(N, args), LAMBDA t : first <= t /\ t <= last)

\* j is reached from i in the snapshot at time p by a walk of at most limit
\* alive edges (any number of them when limit is infinite)
WithinHops(N, p, i, j, limit) ==
    \E k \in 0..Len(N.nodes) : k <= limit /\ j \in WalkEnds(N, p, i, k)

(***************************************************************************)
(* C22.  For consecutive retained sample times p then t, get_teg has the   *)
(* edge from (i, p) to (j, t) iff j is reached from i in get_graph_at(p)   *)
(* by a path of at most L edges (none when i = j); with the default,      *)
(* unbounded L the edge exists iff j is reachable from i at p.             *)
(***************************************************************************)
C22_TegEdgeIffReachableWithinLimit ==
    (ret.op = "get_teg" /\ ret.exc = "none") =>
        LET kept == RetainedSamples(tn, ret.arg)
        IN  \A k \in 2..Len(kept) :
              \A i \in 1..Len(tn.nodes), j \in 1..Len(tn.nodes) :
                (<< <<i, kept[k - 1]>>, <<j, kept[k]>> >> \in ret.val.edges)
                <=> WithinHops(tn, kept[k - 1], i, j, ret.arg.limit)

\* the nodes reached from the nodes of S by one or more edges of E
RECURSIVE Descendants(_, _, _)
Descendants(E, S, seen) ==
    LET next == { e[2] : e \in { x \in E : x[1] \in S } } \ seen
    IN  IF next = {} THEN seen ELSE Descendants(E, next, seen \cup next)

Acyclic(G) == \A n \in G.nodes : n \notin Descendants(G.edges, {n}, {})

\* every edge of G goes from a node of one sample of kept to a node of the
\* sample that follows it, and to no other node
Layered(G, kept) ==
    \A e \in G.edges :
        /\ e[1][2] # e[2][2]
        /\ \E k \in 2..Len(kept) : e[1][2] = kept[k - 1] /\ e[2][2] = kept[k]
        /\ \A k \in 1..Len(kept), l \in 1..Len(kept) :
              (e[1][2] = kept[k] /\ e[2][2] = kept[l]) => l = k + 1

(***************************************************************************)
(* C23 as stated.  For every sample sequence, default or explicit, the     *)
(* graph of get_teg is acyclic and each of its edges goes from a node of   *)
(* one sample layer to a node of the layer that follows it, never within a *)
(* layer, backwards, or across more than one layer.                        *)
(***************************************************************************)
C23_TegLayeredForEverySequence ==
    (ret.op = "get_teg" /\ ret.exc = "none") =>
        /\ Acyclic(ret.val)
        /\ Layered(ret.val, RetainedSamples(tn, ret.arg))

NoRepeat(seq) == \A k \in 1..Len(seq), l \in 1..Len(seq) : seq[k] = seq[l] => k = l

(***************************************************************************)
(* C23.  When no sample time is retained twice (the critical times never   *)
(* are), the graph of get_teg is acyclic and each of its edges goes from a *)
(* node of one sample layer to a node of the layer that follows it.        *)
(***************************************************************************)
C23_TegLayeredWithoutRepeatedSample ==
    (/\ ret.op = "get_teg"
     /\ ret.exc = "none"
     /\ NoRepeat(RetainedSamples(tn, ret.arg))) =>
        /\ Acyclic(ret.val)
        /\ Layered(ret.val, RetainedSamples(tn, ret.arg))

\* explicit sample times, three layers or more, limited hops
C23_Witness ==
    /\ ret.op = "get_teg"
    /\ ret.exc = "none"
    /\ ret.arg.sample_times.some
    /\ ret.arg.limit = 1
    /\ NoRepeat(RetainedSamples(tn, ret.arg))
    /\ Len(RetainedSamples(tn, ret.arg)) >= 3
    /\ \E e \in ret.val.edges : e[1][1] # e[2][1]

\* the sample sequence of a call of get_reeb_graph: the explicit one, or the
\* midpoints between consecutive critical times
ReebSampleSequence(N, args) ==
    IF args.sample_times.some THEN args.sample_times.v
    ELSE LET critical_times == get_critical_times(N)
         IN  [i \in 1..(Len(critical_times) - 1) |->
                (critical_times[i] + critical_times[i + 1]) \div 2]

\* the positions of the sample sequence that get_reeb_graph retains, in
\* order: an omitted start is the first critical time, an omitted end the
\* last one
RetainedPositions(N, args) ==
    LET critical_times == get_critical_times(N)
        seq == ReebSampleSequence(N, args)
        first == IF args.start.some THEN args.start.v ELSE critical_times[1]
        last == IF args.end.some THEN args.end.v
                ELSE critical_times[Len(critical_times)]
    IN  SelectSeq([k \in 1..Len(seq) |-> k],
                  LAMBDA k : first <= seq[k] /\ seq[k] <= last)

\* the nodes joined to n by a walk of edges alive at t
ComponentOf(N, t, n) == UNION { WalkEnds(N, t, n, k) : k \in 0..Len(N.nodes) }

\* the clusters paired with position k of the sample sequence: the supplied
\* ones, or the connected components of the snapshot at that sample
PairedClusters(N, args, k) ==
    IF args.clusters_list.some
    THEN { args.clusters_list.v[k][l] : l \in 1..Len(args.clusters_list.v[k]) }
    ELSE { ComponentOf(N, ReebSampleSequence(N, args)[k], n) : n \in 1..Len(N.nodes) }

Least(cluster) == CHOOSE n \in cluster : \A m \in cluster : n <= m

\* the attributes of the nodes of the Reeb graph G
NodeData(G) == { G.nodes[id] : id \in DOMAIN G.nodes }

(***************************************************************************)
(* C24 as stated.  For the i-th sample time that the [start, end] filter   *)
(* retains and every cluster c of the clustering paired with it (supplied  *)
(* lists are filtered together; by default the connected components of the *)
(* snapshot at the midpoint between consecutive critical times) the Reeb   *)
(* graph has one node (min(c), i) with column = i and equivalence class    *)
(* = c, and it has no other node.                                          *)
(***************************************************************************)
C24_ReebNodeForEveryCluster ==
    (ret.op = "get_reeb_graph" /\ ret.exc = "none") =>
        LET pos == RetainedPositions(tn, ret.arg)
        IN  /\ \A id \in DOMAIN ret.val.nodes :
                  id = << ret.val.nodes[id].repr, ret.val.nodes[id].column >>
            /\ NodeData(ret.val) =
                 UNION { { [repr |-> Least(cl), column |-> i - 1, ec |-> cl] :
                             cl \in PairedClusters(tn, ret.arg, pos[i]) } :
                         i \in 1..Len(pos) }

(***************************************************************************)
(* C24.  For the i-th retained sample time and every cluster c of the      *)
(* clustering paired with it, the Reeb graph has the node (min(c), i) with *)
(* column = i, and it has no other node; the equivalence class of the node *)
(* is c when no other cluster of that clustering has the same least node   *)
(* (connected components never have), and otherwise the class of the last  *)
(* supplied cluster with that least node.                                  *)
(***************************************************************************)
C24_ReebNodeForEveryLeastNode ==
    (ret.op = "get_reeb_graph" /\ ret.exc = "none") =>
        LET pos == RetainedPositions(tn, ret.arg)
        IN  /\ DOMAIN ret.val.nodes =
                 UNION { { << Least(cl), i - 1 >> :
                             cl \in PairedClusters(tn, ret.arg, pos[i]) } :
                         i \in 1..Len(pos) }
            /\ \A id \in DOMAIN ret.val.nodes :
                  /\ id = << ret.val.nodes[id].repr, ret.val.nodes[id].column >>
                  /\ ret.val.nodes[id].ec \in PairedClusters(tn, ret.arg, pos[id[2] + 1])
                  /\ Least(ret.val.nodes[id].ec) = id[1]
                  /\ ret.arg.clusters_list.some =>
                        LET supplied == ret.arg.clusters_list.v[pos[id[2] + 1]]
                        IN  \A k \in 1..Len(supplied) :
                              (/\ Least(supplied[k]) = id[1]
                               /\ \A l \in (k + 1)..Len(supplied) :
                                     Least(supplied[l]) # id[1])
                              => ret.val.nodes[id].ec = supplied[k]

\* supplied clusterings of which the filter drops the first: the columns
\* are those of the clusterings that remain
C24_Witness ==
    /\ ret.op = "get_reeb_graph"
    /\ ret.exc = "none"
    /\ ret.arg.clusters_list.some
    /\ Len(RetainedPositions(tn, ret.arg)) >= 2
    /\ RetainedPositions(tn, ret.arg)[1] = 2
    /\ \E x \in NodeData(ret.val), y \in NodeData(ret.val) :
          x.column = y.column /\ x.ec # y.ec

(***************************************************************************)
(* C25.  For any clusterings, default or supplied, overlapping or not, two *)
(* nodes of the Reeb graph are joined by an edge iff their columns differ  *)
(* by one and their equivalence classes meet; no edge joins two nodes of   *)
(* the same column or of columns that are not adjacent.                    *)
(***************************************************************************)
C25_ReebEdgesJoinAdjacentColumns ==
    (ret.op = "get_reeb_graph" /\ ret.exc = "none") =>
        \A x \in DOMAIN ret.val.nodes, y \in DOMAIN ret.val.nodes :
            x # y =>
              ({x, y} \in ret.val.edges
               <=> /\ ret.val.nodes[x].column - ret.val.nodes[y].column \in {1, -1}
                   /\ ret.val.nodes[x].ec \cap ret.val.nodes[y].ec # {})

\* the arguments of a call of a graph builder are of the kind the builder
\* expects: clusterings come with sample times, one for each
WellFormedCall ==
    /\ ret.op \in {"get_teg", "get_reeb_graph"}
    /\ ret.op = "get_reeb_graph" =>
          /\ ret.arg.clusters_list.some => ret.arg.sample_times.some
          /\ ret.arg.clusters_list.some =>
                Len(ret.arg.clusters_list.v) = Len(ret.arg.sample_times.v)

(***************************************************************************)
(* C29.  get_teg and get_reeb_graph return a graph and do not raise, for   *)
(* every network, the network without edges (no critical times) and start  *)
(* and end omitted included; for that network and explicit sample times    *)
(* the graph of get_teg has one node for each node and sample time.        *)
(***************************************************************************)
C29_BuildersNeverRaise ==
    WellFormedCall =>
        /\ ret.exc = "none"
        /\ (/\ ret.op = "get_teg"
            /\ tn.edges = << >>
            /\ ret.arg.sample_times.some
            /\ ~ret.arg.start.some
            /\ ~ret.arg.end.some) =>
              ret.val.nodes =
                { <<n, ret.arg.sample_times.v[k]>> :
                    n \in 1..Len(tn.nodes), k \in 1..Len(ret.arg.sample_times.v) }

(***************************************************************************)
(* C30.  get_tvg_window(I) keeps the labels of the nodes: for a network    *)
(* built from a matrix with labels and every interval I, each node of the  *)
(* windowed network has the label it has in the original network.          *)
(***************************************************************************)
C30_WindowKeepsLabels ==
    (ret.op = "get_tvg_window" /\ ret.exc = "none" /\ HasLabels(a)) =>
        /\ Len(ret.val.nodes) = Len(tn.nodes)
        /\ \A k \in 1..Len(tn.nodes) : ret.val.nodes[k] = tn.nodes[k]

\* the union of the closed intervals [rise, set] of all the pairs of a list
\* of rise and set times
RECURSIVE UnionOfPairs(_)
UnionOfPairs(times) ==
    IF Len(times) < 2 THEN empty
    ELSE Union(closed(times[1], times[2]), UnionOfPairs(SubSeq(times, 3, Len(times))))

(***************************************************************************)
(* C26.  contact_plan_to_matrix(nodes, edges) returns the n x n matrix, n  *)
(* the number of nodes, whose diagonal is unbounded and in which, for      *)
(* every edge key (i, j) with list [rise0, set0, rise1, set1, ...], the    *)
(* cells (i, j) and (j, i) are the union of the closed intervals           *)
(* [rise_k, set_k] over all the pairs of the list; every other cell off    *)
(* the diagonal is empty.                                                  *)
(***************************************************************************)
C26_PlanMatrixIsUnionOfContacts ==
    ret.op = "contact_plan_to_matrix" =>
        LET n == Len(ret.arg.nodes)
            edges == ret.arg.edges
        IN  /\ ret.exc = "none"
            /\ ret.val.dim_row = n
            /\ ret.val.dim_col = n
            /\ \A i \in 1..n, j \in 1..n :
                  Get(ret.val, i, j) =
                     IF i = j THEN unbounded
                     ELSE IF << i, j >> \in DOMAIN edges THEN UnionOfPairs(edges[<< i, j >>])
                     ELSE IF << j, i >> \in DOMAIN edges THEN UnionOfPairs(edges[<< j, i >>])
                     ELSE empty

\* the rise and set times of a link once the gaps shorter than delta are
\* closed: a connection that rises less than delta after the set before it
\* goes on from that connection
RECURSIVE MergeGaps(_, _, _, _)
MergeGaps(connections, k, delta, merged) ==
    IF k > Len(connections) THEN merged
    ELSE IF merged # << >> /\ connections[k].rise - merged[Len(merged)] < delta
    THEN MergeGaps(connections, k + 1, delta,
                   Append(SubSeq(merged, 1, Len(merged) - 1), connections[k].set))
    ELSE MergeGaps(connections, k + 1, delta,
                   merged \o << connections[k].rise, connections[k].set >>)

\* the edge of the k-th contact of the report has no other contact
OnlyLinkOfItsEdge(k) ==
    \A l \in 1..Len(contacts) :
        {contacts[l].source, contacts[l].target} = {contacts[k].source, contacts[k].target}
        => l = k

(***************************************************************************)
(* C27.  contact_analysis_report_parser closes the gaps shorter than       *)
(* delta: when a connection of a link rises less than delta after the set  *)
(* of the one before, the two become one rise / set pair ([0, 49] and      *)
(* [51, 100] with delta = 5 give the list [0, 100]); the list of every     *)
(* edge is an alternation of rise and set times, of even length.           *)
(***************************************************************************)
C27_ParserMergesShortGaps ==
    ret.op = "contact_analysis_report_parser" =>
        /\ ret.exc = "none"
        /\ \A e \in DOMAIN ret.val.edges : Len(ret.val.edges[e]) % 2 = 0
        /\ \A k \in 1..Len(contacts) :
              OnlyLinkOfItsEdge(k) =>
                 \E e \in DOMAIN ret.val.edges :
                    /\ { ret.val.nodes[e[1]], ret.val.nodes[e[2]] }
                          = { contacts[k].source, contacts[k].target }
                    /\ ret.val.edges[e]
                          = MergeGaps(contacts[k].connections, 1, ret.arg, << >>)

\* the calls of the operators that return a matrix
MatrixOperators ==
    { "__add__", "__radd__", "__mul__", "__pow__", "get_k_cumulant",
      "get_transpose", "__lshift__", "__invert__", "get_window" }

(***************************************************************************)
(* C28.  No two matrices alias: after any constructions from explicit      *)
(* grids, operator applications (the reflected add 0 + x included) and     *)
(* cell assignments, assigning a cell of one matrix changes no cell of any *)
(* other matrix, and the result of an operator is a new matrix, distinct   *)
(* from its operands, with a grid of its own.                              *)
(***************************************************************************)
C28_NoTwoMatricesAlias ==
    [][ /\ ret'.op = "__setitem__" =>
              \A x \in Refs : x # ret'.arg[1] => Deref(heap', x) = Deref(heap, x)
        /\ ret'.op \in MatrixOperators =>
              /\ ret'.val \notin Refs
              /\ \A x \in Refs :
                    heap'.matrices[ret'.val].array # heap.matrices[x].array
              /\ heap'.matrices[ret'.val].array \notin CallerLists ]_vars

=============================================================================
